---- MODULE Spec2Model ----
(***************************************************************************)
(* State-machine model of the session automation engine of src/main.py:    *)
(* OllamaPlanner (transcript, pending reason, worker loop, oracle reply    *)
(* parsing), TelnetSession (connection, listener loop, detector cascade,   *)
(* command dispatch) and the connect / reconnect loop of run_client.       *)
(*                                                                         *)
(* Threads: the listener (one scan pass per received text), the planner    *)
(* worker (one action per blocking point of _worker_loop) and the main     *)
(* thread of run_client.  Every planner method runs under the planner lock *)
(* and is therefore one atomic operator on the planner record.             *)
(***************************************************************************)
EXTENDS Integers, Sequences, FiniteSets, TLC

VARIABLES
    session,    \* fields of TelnetSession
    planner,    \* fields of OllamaPlanner
    worker,     \* position and locals of OllamaPlanner._worker_loop
    main,       \* position and locals of run_client
    obs,        \* what the most recent handler step did (observation only)
    src,        \* the value an oracle body was encoded from (observation only)
    net         \* the connection handle and the threads around it, statement
                \* by statement (the specifications of handles and writes)

vars == <<session, planner, worker, main, obs, src, net>>

----------------------------------------------------------------------------
(* Bounds of the model.                                                    *)

\* Characters of server text one buffer token stands for: a token is a
\* block of text holding one occurrence of a detector pattern.
TokChars == 2048
\* Nominal character count of one tagged transcript line ("[event] ...").
TagLineChars == 2048
\* Tokens in one text returned by read_very_eager.
MaxChunkTokens == 1
\* Largest configured transcript cap and largest chunk tried for the
\* transcript buffer on its own.
MaxCap == 6
MaxChunkChars == 4

----------------------------------------------------------------------------
(* Program constants.                                                      *)

OLLAMA_MAX_RETRIES == 3
DEFAULT_MAX_CONTEXT_CHARS == 6000
DEFAULT_MAX_COMMANDS == 3
BUFFER_LIMIT == 8192
BUFFER_KEEP == 4096
OLLAMA_ENABLED == TRUE
TARGET_MEMORY_SECONDS == 45

NoReason == "<none>"        \* _pending_reason is None
NoValue == -1               \* an Optional[int] that is None
NoText == "<none>"          \* an Optional[str] that is None

DEFAULT_PROFILES ==
    << [username |-> "Marchos", password |-> "hello123", label |-> "Marchos"],
       [username |-> "Zesty", password |-> "poopie", label |-> "Zesty"] >>

----------------------------------------------------------------------------
(* Sequence helpers.                                                       *)

RECURSIVE SumSeq(_)
SumSeq(q) == IF q = <<>> THEN 0 ELSE Head(q) + SumSeq(Tail(q))

Last(q) == q[Len(q)]

Prefix(q, n) == SubSeq(q, 1, IF n < Len(q) THEN n ELSE Len(q))

Suffix(q, n) == SubSeq(q, (IF n < Len(q) THEN Len(q) - n ELSE 0) + 1, Len(q))

RemoveAt(q, i) == SubSeq(q, 1, i - 1) \o SubSeq(q, i + 1, Len(q))

SeqsUpTo(S, n) == UNION { [1..k -> S] : k \in 0..n }

----------------------------------------------------------------------------
(* OllamaPlanner: transcript buffer.  A chunk is modelled by its character *)
(* count; every appender writes non-blank text.                            *)

\* while True: total = sum(len(chunk)); if total <= cap: break; popleft()
RECURSIVE EvictOldest(_, _)
EvictOldest(transcript, cap) ==
    IF SumSeq(transcript) <= cap
    THEN transcript
    ELSE EvictOldest(Tail(transcript), cap)

\* Faulty variant: a single popleft instead of the loop.
append_transcript_once(p, n) ==
    LET t == Append(p.transcript, n)
    IN  [p EXCEPT !.transcript =
            IF SumSeq(t) <= p.max_context_chars THEN t ELSE Tail(t)]

append_transcript(p, n) ==
    [p EXCEPT !.transcript = EvictOldest(Append(@, n), p.max_context_chars)]

----------------------------------------------------------------------------
(* Lines sent to the server and oracle commands are sequences of character *)
(* tokens: a word (an opaque run of letters) or one punctuation character. *)

SP == " "
NL == "\n"
DQ == "\""
BS == "\\"
HASH == "#"

Whitespace == {SP, NL}

\* str.strip()
RECURSIVE LStrip(_)
LStrip(line) ==
    IF line # <<>> /\ Head(line) \in Whitespace THEN LStrip(Tail(line)) ELSE line

RECURSIVE RStrip(_)
RStrip(line) ==
    IF line # <<>> /\ Last(line) \in Whitespace
    THEN RStrip(SubSeq(line, 1, Len(line) - 1))
    ELSE line

Strip(line) == RStrip(LStrip(line))

----------------------------------------------------------------------------
(* Observation record: reset at the start of every handler step.           *)

\* What the planner methods of one handler appended: the tags of the
\* transcript lines, the entries of the Issue log, and the names put into
\* the location history.
NoLog ==
    [lines |-> <<>>, issues |-> <<>>, history |-> <<>>, events |-> <<>>,
     opportunities |-> <<>>]

NewObs(who) ==
    [ who |-> who,              \* "listener", "worker", "main", "init"
      sent |-> <<>>,            \* lines written to the connection
      emits |-> {},             \* categories given to display.emit
      wakes |-> <<>>,           \* reasons of accepted request_commands calls
      fired |-> {},             \* detectors that matched in this scan pass
      preUser |-> FALSE,        \* _username_sent when the pass started
      prePass |-> FALSE,        \* _password_sent when the pass started
      preLogged |-> FALSE,      \* _logged_in when the pass started
      preTravel |-> FALSE,      \* _travel_active when the pass started
      prePromptSeen |-> FALSE,  \* an earlier pass of the connection had a
                                \* status prompt in its buffer
      prompt |-> <<>>,          \* <<hp, ep>> of the first status prompt in
                                \* the buffer when the pass started
      matchedUser |-> FALSE,    \* a username pattern matched the buffer
      matchedPass |-> FALSE,    \* a password pattern matched the buffer
      reachedPrompt |-> FALSE,  \* the pass got to the PROMPT_PATTERN test
      activated |-> FALSE,      \* planner.activate() was called
      evicted |-> 0,            \* chunks evicted by the last append
      truncated |-> FALSE,      \* the read cut the detection buffer
      log |-> NoLog,            \* what the planner appended (see NoLog)
      target |-> <<>>,          \* the normalized name of the enemy line matched
      spotted |-> FALSE ]       \* the enemy line was announced

Emit(w, category) == [w EXCEPT !.o.emits = @ \cup {category}]

Fired(w, detector) == [w EXCEPT !.o.fired = @ \cup {detector}]

----------------------------------------------------------------------------
(* OllamaPlanner: methods, each an operator on the planner record p.       *)
(* The event, issue, opportunity, location-history and command-history     *)
(* deques only feed the prompt text; the record keeps no copy of them, and *)
(* p.log holds what the current handler appended to them.  Text fields     *)
(* added to the status snapshot hold sequences of characters.              *)

\* an Optional[str] that is None, among sequences of characters
NoChars == << "<none>" >>

\* str.lower
Lower(chars) ==
    [i \in DOMAIN chars |->
        CASE chars[i] = "H" -> "h"
          [] chars[i] = "L" -> "l"
          [] OTHER -> chars[i]]

\* an entry of the Issue log: its text is made of kind and arg; n is the
\* count in a "(xN)" suffix or the streak in the text, 1 when it has none
Issue(kind, arg, n) == [kind |-> kind, arg |-> arg, n |-> n]

PlannerInit(cap) ==
    [ enabled |-> OLLAMA_ENABLED,
      max_context_chars |-> cap,
      max_commands |-> DEFAULT_MAX_COMMANDS,
      transcript |-> <<>>,
      pending_reason |-> NoReason,
      request_event |-> FALSE,
      active |-> FALSE,
      last_hp |-> NoValue,
      last_ep |-> NoValue,
      travel_state |-> NoText,
      rest_state |-> NoText,
      last_gold |-> NoValue,
      location |-> NoChars,
      location_streak |-> 0,
      stagnation_flag |-> NoChars,
      exits |-> NoChars,
      environment |-> NoChars,
      encumbrance |-> NoChars,
      inventory_state |-> NoChars,
      issue_counts |-> <<>>,    \* _issue_counts, as a function on Issue texts
      log |-> NoLog,
      \* observation: oracle HTTP requests outstanding, how many accepted
      \* wakes in a row arrived during the same round-trip (0 when the
      \* latest arrived outside one), and rounds started since the latest
      inflight |-> 0,
      wakes_in_flight |-> 0,
      rounds_after_wake |-> 0 ]

\* the wake just accepted, counted against the round-trip under way
WakesInFlight(p) ==
    IF p.inflight = 0 THEN 0
    ELSE IF p.rounds_after_wake = 0 /\ p.wakes_in_flight > 0
    THEN (IF p.wakes_in_flight < 2 THEN p.wakes_in_flight + 1 ELSE 2)
    ELSE 1

\* Faulty variant: the first pending reason is kept (no replacement).
request_commands_keep_first(p, reason) ==
    IF ~p.enabled \/ ~p.active THEN p
    ELSE [p EXCEPT !.pending_reason = IF @ = NoReason THEN reason ELSE @,
                   !.request_event = TRUE,
                   !.wakes_in_flight = WakesInFlight(p),
                   !.rounds_after_wake = 0]

\* Faulty variant: every wake starts its own oracle request.
request_commands_spawn(p, reason) ==
    IF ~p.enabled \/ ~p.active THEN p
    ELSE [p EXCEPT !.pending_reason = reason,
                   !.request_event = TRUE,
                   !.inflight = IF @ < 2 THEN @ + 1 ELSE @,
                   !.wakes_in_flight = WakesInFlight(p),
                   !.rounds_after_wake = 0]

\* a variant that takes wakes while the planner is inactive
request_commands_inactive(p, reason) ==
    IF ~p.enabled THEN p
    ELSE [p EXCEPT !.pending_reason = reason,
                   !.request_event = TRUE,
                   !.wakes_in_flight = WakesInFlight(p),
                   !.rounds_after_wake = 0]

request_commands(p, reason) ==
    IF ~p.enabled THEN p
    ELSE IF ~p.active THEN p
    ELSE [p EXCEPT !.pending_reason = reason,
                   !.request_event = TRUE,
                   !.wakes_in_flight = WakesInFlight(p),
                   !.rounds_after_wake = 0]

activate(p) ==
    IF ~p.enabled THEN p
    ELSE request_commands([p EXCEPT !.active = TRUE], "session start")

deactivate(p) == [p EXCEPT !.active = FALSE]

reset(p) ==
    [p EXCEPT !.transcript = <<>>,
              !.pending_reason = NoReason,
              !.last_hp = NoValue,
              !.last_ep = NoValue,
              !.travel_state = NoText,
              !.rest_state = NoText,
              !.last_gold = NoValue,
              !.location = NoChars,
              !.location_streak = 0,
              !.stagnation_flag = NoChars,
              !.exits = NoChars,
              !.environment = NoChars,
              !.encumbrance = NoChars,
              !.inventory_state = NoChars,
              !.issue_counts = <<>>,
              !.request_event = FALSE]

\* text is the received text, nchars its length; blank text is dropped
observe_output(p, nchars) ==
    IF ~(p.enabled /\ nchars > 0) THEN p
    ELSE append_transcript(p, nchars)

\* _append_transcript of a tagged line
append_line(p, tag) ==
    [append_transcript(p, TagLineChars) EXCEPT !.log.lines = Append(@, tag)]

\* self._issues.append
append_issue(p, issue) == [p EXCEPT !.log.issues = Append(@, issue)]

update_vitals(p, hp, ep) ==
    IF ~p.enabled THEN p
    ELSE IF p.last_hp = hp /\ p.last_ep = ep THEN p
    ELSE LET p1 == append_line([p EXCEPT !.last_hp = hp, !.last_ep = ep],
                               "status")
             p2 == IF hp <= 20
                   THEN append_issue(p1, Issue("Health is critically low",
                                               <<>>, 1))
                   ELSE p1
         IN  IF ep <= 15
             THEN append_issue(p2, Issue("Energy is running low", <<>>, 1))
             ELSE p2

update_gold(p, amount) ==
    IF ~p.enabled THEN p
    ELSE IF p.last_gold = amount THEN p
    ELSE LET p1 == append_line([p EXCEPT !.last_gold = amount], "status")
         IN  IF amount = 0
             THEN append_issue(p1, Issue("No gold available", <<>>, 1))
             ELSE p1

\* a variant that writes a "[location]" line for a repeated location too
update_location_relog(p, location) ==
    LET cleaned == Strip(location)
    IN  IF ~p.enabled \/ cleaned = <<>> THEN p
        ELSE
        LET p1 == IF p.location = cleaned
                  THEN append_line([p EXCEPT !.location_streak = @ + 1],
                                   "location")
                  ELSE append_line([p EXCEPT !.location = cleaned,
                                             !.location_streak = 1,
                                             !.stagnation_flag = NoChars],
                                   "location")
        IN  [p1 EXCEPT !.log.history = Append(@, cleaned)]

update_location(p, location) ==
    LET cleaned == Strip(location)
    IN  IF ~p.enabled \/ cleaned = <<>> THEN p
        ELSE
        LET p1 == IF p.location = cleaned
                  THEN LET q == [p EXCEPT !.location_streak = @ + 1]
                       IN  IF q.location_streak <= 3
                           THEN append_line(q, "location-repeat")
                           ELSE q
                  ELSE append_line([p EXCEPT !.location = cleaned,
                                             !.location_streak = 1,
                                             !.stagnation_flag = NoChars],
                                   "location")
        IN  [p1 EXCEPT !.log.history = Append(@, cleaned)]

\* a variant that writes its line whether or not the value is new
update_exits_always(p, exits) ==
    LET cleaned == Strip(exits)
    IN  IF ~p.enabled \/ cleaned = <<>> THEN p
        ELSE append_line([p EXCEPT !.exits = cleaned], "exits")

update_exits(p, exits) ==
    LET cleaned == Strip(exits)
    IN  IF ~p.enabled \/ cleaned = <<>> THEN p
        ELSE IF p.exits = cleaned THEN p
        ELSE append_line([p EXCEPT !.exits = cleaned], "exits")

update_environment(p, description) ==
    LET cleaned == Strip(description)
    IN  IF ~p.enabled \/ cleaned = <<>> THEN p
        ELSE IF p.environment = cleaned THEN p
        ELSE append_line([p EXCEPT !.environment = cleaned], "environment")

\* the callers pass literals: strip() leaves them as they are
update_travel_state(p, state) ==
    IF ~p.enabled THEN p
    ELSE IF p.travel_state = state THEN p
    ELSE append_line([p EXCEPT !.travel_state = state], "travel")

update_rest_state(p, state) ==
    IF ~p.enabled THEN p
    ELSE IF p.rest_state = state THEN p
    ELSE append_line([p EXCEPT !.rest_state = state], "rest")

update_encumbrance(p, state) ==
    LET normalized == Lower(Strip(state))
    IN  IF ~p.enabled \/ normalized = <<>> THEN p
        ELSE IF p.encumbrance = normalized THEN p
        ELSE append_line([p EXCEPT !.encumbrance = normalized], "encumbrance")

update_inventory_state(p, state) ==
    LET normalized == Lower(Strip(state))
    IN  IF ~p.enabled \/ normalized = <<>> THEN p
        ELSE IF p.inventory_state = normalized THEN p
        ELSE append_line([p EXCEPT !.inventory_state = normalized],
                         "inventory")

\* a variant that raises its Issue at every call from the fourth on
track_stagnation_repeat(p, location, streak) ==
    LET cleaned == Strip(location)
    IN  IF ~p.enabled \/ streak < 1 \/ cleaned = <<>> THEN p
        ELSE IF streak >= 4
        THEN append_issue([p EXCEPT !.stagnation_flag = cleaned],
                          Issue("Still at", cleaned, streak))
        ELSE p

track_stagnation(p, location, streak) ==
    LET cleaned == Strip(location)
    IN  IF ~p.enabled \/ streak < 1 \/ cleaned = <<>> THEN p
        ELSE IF streak >= 4 /\ p.stagnation_flag # cleaned
        THEN append_issue([p EXCEPT !.stagnation_flag = cleaned],
                          Issue("Still at", cleaned, streak))
        ELSE IF streak <= 1 /\ p.stagnation_flag = cleaned
        THEN [p EXCEPT !.stagnation_flag = NoChars]
        ELSE p

\* _issue_counts.get(issue, 0)
IssueCount(p, issue) ==
    IF issue \in DOMAIN p.issue_counts THEN p.issue_counts[issue] ELSE 0

\* a count is only compared with 1, 3 and 5 and is kept up to 6
NextCount(count) == IF count < 6 THEN count + 1 ELSE count

\* a log that takes every report of an issue
record_issue_every(p, kind, arg) ==
    IF ~p.enabled THEN p
    ELSE LET issue == Issue(kind, arg, 1)
             count == NextCount(IssueCount(p, issue))
         IN  append_issue([p EXCEPT !.issue_counts =
                              [i \in DOMAIN @ \cup {issue} |->
                                  IF i = issue THEN count ELSE @[i]]],
                          Issue(kind, arg, count))

\* the issue text is never blank at the call sites
record_issue(p, kind, arg) ==
    IF ~p.enabled THEN p
    ELSE LET issue == Issue(kind, arg, 1)
             count == NextCount(IssueCount(p, issue))
             p1 == [p EXCEPT !.issue_counts =
                       [i \in DOMAIN @ \cup {issue} |->
                           IF i = issue THEN count ELSE @[i]]]
         IN  IF count = 1 \/ count \in {3, 5}
             THEN append_issue(p1, Issue(kind, arg, count))
             ELSE p1

\* the message is never blank at the call sites
note_event(p, message) ==
    IF ~p.enabled THEN p
    ELSE append_line([p EXCEPT !.log.events = Append(@, message)], "event")

record_opportunity(p, message) ==
    IF ~p.enabled THEN p
    ELSE append_line([p EXCEPT !.log.opportunities = Append(@, message)],
                     "opportunity")

record_command(p, command) ==
    IF ~p.enabled THEN p
    ELSE IF Strip(command) = <<>> THEN p
    ELSE append_line(p, ">>>")

\* a variant that builds a prompt for an inactive planner
build_prompt_inactive(p) ==
    IF p.transcript = <<>>
    THEN [p |-> p, payload |-> FALSE, reason |-> NoReason]
    ELSE [p |-> [p EXCEPT !.pending_reason = NoReason],
          payload |-> TRUE,
          reason |-> p.pending_reason]

\* Returns the planner after the locked section, whether a prompt was
\* built, and the trigger reason that went into it.
build_prompt(p) ==
    IF ~p.active
    THEN [p |-> p, payload |-> FALSE, reason |-> NoReason]
    ELSE IF p.transcript = <<>>
    THEN [p |-> p, payload |-> FALSE, reason |-> NoReason]
    ELSE [p |-> [p EXCEPT !.pending_reason = NoReason],
          payload |-> TRUE,
          reason |-> p.pending_reason]

----------------------------------------------------------------------------
(* TelnetSession.  The detection buffer is a sequence of tokens; a token   *)
(* [k, a, b] is a block of TokChars characters of server text holding one  *)
(* occurrence of the pattern named k (a, b: the numbers it carries).       *)
(* A world w = [s, p, o] is the session, the planner and the observation   *)
(* record a handler works on.                                              *)

Tok(k, a, b) == [k |-> k, a |-> a, b |-> b]

USERNAME_PATTERNS == {"username_prompt"}
PASSWORD_PATTERNS == {"password_prompt"}
PROMPT_PATTERN == {"status_prompt"}
TRAVELTO_START_PATTERN == {"travelto_start"}
TRAVELTO_END_PATTERNS == {"travelto_end"}   \* TRAVELTO_ABORT / _COMPLETE
EXPERIENCE_GAIN_PATTERN == {"experience_gain"}
MORE_PATTERNS == {"more"}                   \* MORE_PATTERN / PRESS_ENTER_PATTERN
LOCATION_PATTERNS == {"location"}           \* LOCATION_AT_PATTERN, ROOM_NAME_PATTERNS
DOOR_LOCKED_PATTERN == {"door_locked"}
NO_GOLD_PATTERN == {"no_gold"}
DIRECTION_BLOCK_PATTERN == {"direction_block"}
TARGET_MISSING_PATTERN == {"target_missing"}
TARGET_LINE_PATTERN == {"target_line"}
REST_START_PATTERN == {"rest_start"}

\* the texts a token's number stands for: group("location") or
\* group("room") of a location line, group("direction") of a door line
RoomNames == << <<"P", "z">>, <<"G">> >>
Directions == << <<"n">>, <<"e">> >>

\* group("name") of an enemy line, by the token's number
TargetNames == << <<"H", " ", "L">>, <<"h", " ", " ", "l">>, <<"L">> >>

\* re.sub(r"\s+", " ", name): every run of whitespace becomes one space
RECURSIVE CollapseWs(_)
CollapseWs(chars) ==
    IF chars = <<>> THEN <<>>
    ELSE IF Head(chars) \in Whitespace
    THEN <<SP>> \o CollapseWs(LStrip(chars))
    ELSE <<Head(chars)>> \o CollapseWs(Tail(chars))

\* pattern.search(buffer): index of the first match, 0 when there is none
RECURSIVE SearchFrom(_, _, _)
SearchFrom(buffer, pattern, i) ==
    IF i > Len(buffer) THEN 0
    ELSE IF buffer[i].k \in pattern THEN i
    ELSE SearchFrom(buffer, pattern, i + 1)

Search(buffer, pattern) == SearchFrom(buffer, pattern, 1)

\* _consume: the buffer from the end of the first match on
consume(w, pattern) ==
    LET i == Search(w.s.buffer, pattern)
    IN  IF i = 0 THEN w
        ELSE [w EXCEPT !.s.buffer = SubSeq(@, i + 1, Len(@))]

\* _remove_match: the buffer without the matched text
remove_match(w, i) == [w EXCEPT !.s.buffer = RemoveAt(@, i)]

\* pattern.sub("", buffer): every match removed
RemoveAll(buffer, pattern) == SelectSeq(buffer, LAMBDA t : t.k \notin pattern)

TextChars(text) == Len(text) * TokChars

SessionInit ==
    [ profile |-> 0,
      connection |-> 0,           \* 0: None, 1: an open telnetlib.Telnet
      listener |-> "none",        \* "none", "alive", "dead" (thread ended)
      stop_event |-> FALSE,
      buffer |-> <<>>,
      logged_in |-> FALSE,
      username_sent |-> FALSE,
      password_sent |-> FALSE,
      travel_active |-> FALSE,
      last_command_sent |-> <<>>,
      last_prompt_status |-> <<>>,
      last_location_summary |-> NoChars,
      repeat_location_count |-> 0,
      stagnation_notice_location |-> NoChars,
      gold_failures |-> 0,
      recent_targets |-> <<>>,    \* _recent_targets: name -> time announced
      \* observation: a scan pass of this connection has had a status
      \* prompt in its buffer
      prompt_seen |-> FALSE ]

send_command(w, command, source) ==
    IF w.s.connection = 0
    THEN Emit(w, "error")
    ELSE LET w1 == [w EXCEPT !.o.sent = Append(@, [line |-> command,
                                                    source |-> source]),
                             !.s.last_command_sent = Strip(command)]
             w2 == Emit(w1, IF source \in {"ollama", "input"}
                            THEN source ELSE "event")
         IN  [w2 EXCEPT !.p = record_command(@, command)]

send_blank(w) ==
    IF w.s.connection = 0
    THEN w
    ELSE LET w1 == [w EXCEPT !.o.sent = Append(@, [line |-> <<>>,
                                                    source |-> "system"]),
                             !.s.last_command_sent = <<>>]
         IN  [Emit(w1, "event") EXCEPT !.p = record_command(@, <<>>)]

\* planner calls made from the cascade, with their trace in the observation
DoWake(w, reason) ==
    LET accepted == w.p.enabled /\ w.p.active
    IN  [w EXCEPT
            !.p = request_commands(@, reason),
            !.o.wakes = IF accepted THEN Append(@, reason) ELSE @]

DoNote(w, text, arg) == [w EXCEPT !.p = note_event(@, Issue(text, arg, 1))]

DoOpportunity(w, text, arg) ==
    [w EXCEPT !.p = record_opportunity(@, Issue(text, arg, 1))]

DoIssue(w, kind, arg) == [w EXCEPT !.p = record_issue(@, kind, arg)]

DoActivate(w) ==
    LET accepted == w.p.enabled
    IN  [w EXCEPT
            !.p = activate(@),
            !.o.activated = TRUE,
            !.o.wakes = IF accepted THEN Append(@, "session start") ELSE @]

Username(w) == << DEFAULT_PROFILES[w.s.profile].username >>
Password(w) == << DEFAULT_PROFILES[w.s.profile].password >>

Go(w) == [w |-> w, ret |-> FALSE]
Return(w) == [w |-> w, ret |-> TRUE]

\* Faulty variant: the username is sent as soon as anything is received.
detect_username_eager(w) ==
    IF ~w.s.username_sent
    THEN Return(consume([send_command(Fired(w, "username"), Username(w),
                                      "system")
                         EXCEPT !.s.username_sent = TRUE],
                        USERNAME_PATTERNS))
    ELSE Go(w)

detect_username(w) ==
    IF ~w.s.username_sent /\ Search(w.s.buffer, USERNAME_PATTERNS) > 0
    THEN Return(consume([send_command(Fired(w, "username"), Username(w),
                                      "system")
                         EXCEPT !.s.username_sent = TRUE],
                        USERNAME_PATTERNS))
    ELSE Go(w)

detect_password(w) ==
    IF ~w.s.password_sent /\ Search(w.s.buffer, PASSWORD_PATTERNS) > 0
    THEN LET w0 == Fired(w, "password")
             w1 == IF ~w0.s.username_sent
                   THEN send_command(w0, Username(w0), "system")
                   ELSE w0
             w2 == send_command(w1, Password(w1), "system")
         IN  Return(consume([w2 EXCEPT !.s.password_sent = TRUE],
                            PASSWORD_PATTERNS))
    ELSE Go(w)

detect_status(w) ==
    LET i == Search(w.s.buffer, PROMPT_PATTERN)
    IN  IF i = 0 THEN Go(w)
        ELSE
        LET hp == w.s.buffer[i].a
            ep == w.s.buffer[i].b
            w0 == Fired(w, "status")
            w1 == [w0 EXCEPT !.p = update_vitals(@, hp, ep)]
            changed == <<hp, ep>> # w1.s.last_prompt_status
            w2 == IF changed
                  THEN [w1 EXCEPT !.s.last_prompt_status = <<hp, ep>>]
                  ELSE w1
            w3 == IF changed /\ hp <= 20
                  THEN DoIssue(DoNote(Emit(w2, "event"), "HP critically low",
                          <<>>),
                               "HP critically low", <<>>)
                  ELSE w2
            w4 == IF changed /\ ep <= 15
                  THEN DoIssue(DoNote(Emit(w3, "event"), "EP low", <<>>),
                               "EP reserves low", <<>>)
                  ELSE w3
        IN  Go([w4 EXCEPT !.p = update_rest_state(@, "awake")])

detect_travelto_start(w) ==
    IF Search(w.s.buffer, TRAVELTO_START_PATTERN) = 0 THEN Go(w)
    ELSE
    LET w1 == DoNote(Emit([Fired(w, "travelto_start") EXCEPT
                              !.s.travel_active = TRUE], "event"),
                                      "Travelto auto-travel engaged", <<>>)
        w2 == [w1 EXCEPT !.p = update_travel_state(@, "auto-travel engaged")]
    IN  Return(consume(w2, TRAVELTO_START_PATTERN))

detect_travelto_end(w) ==
    IF Search(w.s.buffer, TRAVELTO_END_PATTERNS) = 0 THEN Go(w)
    ELSE
    LET w1 == DoNote(Emit([Fired(w, "travelto_end") EXCEPT
                              !.s.travel_active = FALSE], "event"),
                                      "Travelto route ended", <<>>)
        w2 == [w1 EXCEPT !.p = update_travel_state(@, "idle")]
        w3 == DoWake(w2, "travelto ended")
    IN  Return([w3 EXCEPT !.s.buffer = RemoveAll(@, TRAVELTO_END_PATTERNS)])

\* the location line: the repeat count of the session, the planner's
\* location and stagnation tracking, and the session's own notice
detect_location(w) ==
    LET i == Search(w.s.buffer, LOCATION_PATTERNS)
    IN  IF i = 0 THEN Go(w)
        ELSE
        LET location_name == RoomNames[w.s.buffer[i].a]
            w0 == remove_match(Fired(w, "location"), i)
            w1 == IF location_name = w0.s.last_location_summary
                  THEN [w0 EXCEPT !.s.repeat_location_count = @ + 1]
                  ELSE DoNote(Emit(
                         [w0 EXCEPT
                             !.s.last_location_summary = location_name,
                             !.s.repeat_location_count = 1,
                             !.s.stagnation_notice_location = NoChars],
                         "event"), "Now at", location_name)
            w2 == [w1 EXCEPT !.p = track_stagnation(
                                       update_location(@, location_name),
                                       location_name,
                                       w1.s.repeat_location_count)]
        IN  IF /\ w2.s.repeat_location_count >= 4
               /\ w2.s.stagnation_notice_location # location_name
            THEN Go(DoWake(DoIssue(Emit(
                      [w2 EXCEPT !.s.stagnation_notice_location =
                                      location_name],
                      "event"), "Still in", location_name),
                    "stuck in location"))
            ELSE Go(w2)

detect_door_locked(w) ==
    LET i == Search(w.s.buffer, DOOR_LOCKED_PATTERN)
    IN  IF i = 0 THEN Go(w)
        ELSE
        LET direction == Lower(Directions[w.s.buffer[i].a])
            w1 == DoIssue(Emit(Fired(w, "door_locked"), "event"),
                          "door locked", direction)
        IN  Return(remove_match(DoWake(w1, "door locked"), i))

\* _gold_failures is only tested against 3 and is kept up to there
detect_no_gold(w) ==
    LET i == Search(w.s.buffer, NO_GOLD_PATTERN)
    IN  IF i = 0 THEN Go(w)
        ELSE
        LET w0 == Emit([Fired(w, "no_gold") EXCEPT
                           !.s.gold_failures = IF @ < 3 THEN @ + 1 ELSE @],
                       "event")
            failure_summary == IF w0.s.last_command_sent # <<>>
                               THEN w0.s.last_command_sent
                               ELSE <<"purchase">>
            w1 == DoWake(DoIssue(DoNote(w0, "Not enough gold to buy", <<>>),
                    "blocked by empty purse",
                                 failure_summary),
                         "insufficient gold")
            w2 == IF w1.s.gold_failures >= 3 THEN DoNote(w1,
                    "Repeated purchase failures", <<>>) ELSE w1
        IN  Return(remove_match(w2, i))

detect_direction_block(w) ==
    LET i == Search(w.s.buffer, DIRECTION_BLOCK_PATTERN)
    IN  IF i = 0 THEN Go(w)
        ELSE
        LET w1 == DoNote(Emit(Fired(w, "direction_block"), "event"),
                "Path blocked by obstacle", <<>>)
        IN  Return(remove_match(DoWake(w1, "movement blocked"), i))

detect_target_missing(w) ==
    LET i == Search(w.s.buffer, TARGET_MISSING_PATTERN)
    IN  IF i = 0 THEN Go(w)
        ELSE
        LET w1 == DoNote(Emit(Fired(w, "target_missing"), "event"),
                "target missing", <<>>)
        IN  Return(remove_match(DoWake(w1, "target missing"), i))

detect_rest_start(w) ==
    LET i == Search(w.s.buffer, REST_START_PATTERN)
    IN  IF i = 0 THEN Go(w)
        ELSE
        LET w1 == DoNote(Emit(Fired(w, "rest_start"), "event"),
                         "Rest started", <<>>)
            w2 == [w1 EXCEPT !.p = update_rest_state(@, "resting")]
        IN  Return(remove_match(DoWake(w2, "resting"), i))

\* a variant that remembers no name
detect_enemy_always(w) ==
    LET i == Search(w.s.buffer, TARGET_LINE_PATTERN)
    IN  IF i = 0 THEN Go(w)
        ELSE
        LET normalized == Lower(CollapseWs(Strip(TargetNames[w.s.buffer[i].a])))
            w0 == [Fired(w, "enemy") EXCEPT !.o.target = normalized,
                                            !.o.spotted = TRUE]
        IN  Return(remove_match(DoWake(DoNote(Emit(w0, "event"),
                "Potential foe spotted", Strip(TargetNames[w.s.buffer[i].a])),
                                       "enemy spotted"), i))

\* the enemy line; now is the reading of time.monotonic()
detect_enemy(w) ==
    LET i == Search(w.s.buffer, TARGET_LINE_PATTERN)
    IN  IF i = 0 THEN Go(w)
        ELSE
        LET raw_name == Strip(TargetNames[w.s.buffer[i].a])
            normalized == Lower(CollapseWs(raw_name))
            now == net.monotonic
            last == IF normalized \in DOMAIN w.s.recent_targets
                    THEN w.s.recent_targets[normalized] ELSE 0
            w0 == [Fired(w, "enemy") EXCEPT !.o.target = normalized]
            w1 == IF now - last > TARGET_MEMORY_SECONDS
                  THEN DoWake(DoNote(Emit(
                         [w0 EXCEPT
                             !.o.spotted = TRUE,
                             !.s.recent_targets =
                                 [n \in DOMAIN @ \cup {normalized} |->
                                     IF n = normalized THEN now ELSE @[n]]],
                         "event"), "Potential foe spotted", raw_name),
                                 "enemy spotted")
                  ELSE w0
        IN  Return(remove_match(w1, i))

detect_experience(w) ==
    LET i == Search(w.s.buffer, EXPERIENCE_GAIN_PATTERN)
    IN  IF i = 0 THEN Go(w)
        ELSE
        LET w1 == DoNote(Emit(Fired(w, "experience"), "event"),
                "Experience gained", <<>>)
            w2 == DoWake(DoOpportunity(w1,
                    "Recent victory yielded experience", <<>>),
                            "experience gained")
        IN  Return(remove_match(w2, i))

\* Faulty variant: every status prompt activates the planner again.
detect_prompt_reactivate(w) ==
    LET w0 == [w EXCEPT !.o.reachedPrompt = TRUE]
    IN  IF Search(w0.s.buffer, PROMPT_PATTERN) = 0 THEN Go(w0)
        ELSE IF w0.s.travel_active
        THEN Return(consume(Fired(w0, "prompt"), PROMPT_PATTERN))
        ELSE
        LET w1 == DoNote(DoActivate(Emit([Fired(w0, "prompt") EXCEPT
                                             !.s.logged_in = TRUE], "event")),
                                                     "Reached status prompt", <<>>)
        IN  Return(consume(DoWake(w1, "prompt"), PROMPT_PATTERN))

\* a variant that wakes the planner at the activating prompt only
detect_prompt_quiet(w) ==
    LET w0 == [w EXCEPT !.o.reachedPrompt = TRUE]
    IN  IF Search(w0.s.buffer, PROMPT_PATTERN) = 0 THEN Go(w0)
        ELSE IF w0.s.travel_active
        THEN Return(consume(Fired(w0, "prompt"), PROMPT_PATTERN))
        ELSE IF ~w0.s.logged_in
        THEN Return(consume(DoWake(DoNote(DoActivate(Emit(
                      [Fired(w0, "prompt") EXCEPT !.s.logged_in = TRUE],
                      "event")), "Reached status prompt", <<>>), "prompt"),
                              PROMPT_PATTERN))
        ELSE Return(consume(DoNote(Fired(w0, "prompt"),
                "Status prompt available", <<>>), PROMPT_PATTERN))

detect_prompt(w) ==
    LET w0 == [w EXCEPT !.o.reachedPrompt = TRUE]
    IN  IF Search(w0.s.buffer, PROMPT_PATTERN) = 0 THEN Go(w0)
        ELSE IF w0.s.travel_active
        THEN Return(consume(Fired(w0, "prompt"), PROMPT_PATTERN))
        ELSE
        LET w1 == IF ~w0.s.logged_in
                  THEN DoNote(DoActivate(Emit([Fired(w0, "prompt") EXCEPT
                                                  !.s.logged_in = TRUE],
                                              "event")),
                                                      "Reached status prompt", <<>>)
                  ELSE DoNote(Fired(w0, "prompt"), "Status prompt available",
                          <<>>)
        IN  Return(consume(DoWake(w1, "prompt"), PROMPT_PATTERN))

\* a variant that leaves the buffer as it is
detect_more_keep(w) ==
    IF Search(w.s.buffer, MORE_PATTERNS) = 0 THEN Go(w)
    ELSE
    LET w1 == send_blank(Emit(Fired(w, "more"), "event"))
    IN  Go(DoWake(w1, "pagination"))

detect_more(w) ==
    IF Search(w.s.buffer, MORE_PATTERNS) = 0 THEN Go(w)
    ELSE
    LET w1 == send_blank(Emit(Fired(w, "more"), "event"))
    IN  Go([DoWake(w1, "pagination") EXCEPT !.s.buffer = <<>>])

\* The detectors of _process_buffer modelled here, in source order.
Cascade ==
    << "username", "password", "status", "travelto_start", "travelto_end",
       "location", "experience", "door_locked", "no_gold", "direction_block",
       "target_missing", "rest_start", "enemy", "prompt", "more" >>

GameplayDetectors ==
    {"status", "travelto_start", "travelto_end", "location", "experience",
     "door_locked", "no_gold", "direction_block", "target_missing",
     "rest_start", "enemy", "prompt", "more"}

RunDetector(name, w) ==
    CASE name = "username" -> detect_username(w)
      [] name = "password" -> detect_password(w)
      [] name = "status" -> detect_status(w)
      [] name = "travelto_start" -> detect_travelto_start(w)
      [] name = "travelto_end" -> detect_travelto_end(w)
      [] name = "location" -> detect_location(w)
      [] name = "experience" -> detect_experience(w)
      [] name = "door_locked" -> detect_door_locked(w)
      [] name = "no_gold" -> detect_no_gold(w)
      [] name = "direction_block" -> detect_direction_block(w)
      [] name = "target_missing" -> detect_target_missing(w)
      [] name = "rest_start" -> detect_rest_start(w)
      [] name = "enemy" -> detect_enemy(w)
      [] name = "prompt" -> detect_prompt(w)
      [] name = "more" -> detect_more(w)

RECURSIVE RunCascade(_, _)
RunCascade(w, i) ==
    IF i > Len(Cascade) THEN w
    ELSE CHOOSE out \in { IF r.ret THEN r.w ELSE RunCascade(r.w, i + 1) :
                              r \in {RunDetector(Cascade[i], w)} } : TRUE

process_buffer(w) ==
    CHOOSE out \in { IF v.s.profile = 0 THEN v ELSE RunCascade(v, 1) :
                        v \in {w} } : TRUE

\* if len(buffer) > 8192: buffer = buffer[-4096:]
\* (a block cut by the slice no longer holds its pattern and is dropped)
\* a variant that keeps as many characters as the limit allows
Truncate_to_limit(buffer) ==
    IF Len(buffer) * TokChars > BUFFER_LIMIT
    THEN Suffix(buffer, BUFFER_LIMIT \div TokChars)
    ELSE buffer

Truncate(buffer) ==
    IF Len(buffer) * TokChars > BUFFER_LIMIT
    THEN Suffix(buffer, BUFFER_KEEP \div TokChars)
    ELSE buffer

\* One iteration of _listen_loop that received text.
listen_text(w, text) ==
    LET w1 == [w EXCEPT !.p = observe_output(@, TextChars(text))]
        w2 == [w1 EXCEPT !.s.buffer = Truncate(@ \o text),
                         !.o.truncated = Truncate(w1.s.buffer \o text)
                                             # w1.s.buffer \o text]
        i == Search(w2.s.buffer, PROMPT_PATTERN)
        w3 == [w2 EXCEPT
                  !.o.prePromptSeen = w2.s.prompt_seen,
                  !.o.prompt = IF i = 0 THEN <<>>
                               ELSE <<w2.s.buffer[i].a, w2.s.buffer[i].b>>,
                  !.s.prompt_seen = @ \/ i > 0,
                  !.o.preUser = w2.s.username_sent,
                  !.o.prePass = w2.s.password_sent,
                  !.o.preLogged = w2.s.logged_in,
                  !.o.preTravel = w2.s.travel_active,
                  !.o.matchedUser = Search(w2.s.buffer, USERNAME_PATTERNS) > 0,
                  !.o.matchedPass = Search(w2.s.buffer, PASSWORD_PATTERNS) > 0]
    IN  process_buffer(w3)

connect_ok(w, profile) ==
    [w EXCEPT
        !.s = [@ EXCEPT !.profile = profile, !.buffer = <<>>,
                        !.logged_in = FALSE, !.username_sent = FALSE,
                        !.password_sent = FALSE, !.travel_active = FALSE,
                        !.stop_event = FALSE, !.last_command_sent = <<>>,
                        !.last_prompt_status = <<>>,
                        !.last_location_summary = NoChars,
                        !.repeat_location_count = 0,
                        !.stagnation_notice_location = NoChars,
                        !.gold_failures = 0,
                        !.prompt_seen = FALSE,
                        !.connection = 1, !.listener = "alive"],
        !.p = reset(@),
        !.o = [@ EXCEPT !.emits = @ \cup {"event"}]]

\* telnetlib.Telnet(HOST, PORT) raised OSError
connect_failed(w, profile) ==
    [w EXCEPT
        !.s = [@ EXCEPT !.profile = profile, !.buffer = <<>>,
                        !.logged_in = FALSE, !.username_sent = FALSE,
                        !.password_sent = FALSE, !.travel_active = FALSE,
                        !.stop_event = FALSE, !.last_command_sent = <<>>,
                        !.last_prompt_status = <<>>,
                        !.last_location_summary = NoChars,
                        !.repeat_location_count = 0,
                        !.stagnation_notice_location = NoChars,
                        !.gold_failures = 0,
                        !.prompt_seen = FALSE]]

\* a teardown that leaves the planner active
disconnect_keep_planner(w) ==
    [w EXCEPT
        !.s = [@ EXCEPT !.stop_event = TRUE, !.connection = 0,
                        !.listener = "none", !.travel_active = FALSE],
        !.o = [@ EXCEPT !.emits = @ \cup {"event"}]]

\* called from run_client once the listener thread has ended
disconnect(w) ==
    [w EXCEPT
        !.s = [@ EXCEPT !.stop_event = TRUE, !.connection = 0,
                        !.listener = "none", !.travel_active = FALSE],
        !.p = deactivate(@),
        !.o = [@ EXCEPT !.emits = @ \cup {"event"}]]

----------------------------------------------------------------------------
(* json.loads on a sequence of character tokens.  A value is a record      *)
(* [t, s, items, fields]: t is "str" (s: its characters), "num", "lit"     *)
(* (true, false, null), "list" (items) or "obj" (fields: key / val pairs,  *)
(* in the order read).                                                     *)

JStr(chars) == [t |-> "str", s |-> chars, items |-> <<>>, fields |-> <<>>]
JNum(digits) == [t |-> "num", s |-> digits, items |-> <<>>, fields |-> <<>>]
JLit(word) == [t |-> "lit", s |-> <<word>>, items |-> <<>>, fields |-> <<>>]
JList(items) == [t |-> "list", s |-> <<>>, items |-> items, fields |-> <<>>]
JObj(fields) == [t |-> "obj", s |-> <<>>, items |-> <<>>, fields |-> fields]
JNone == JLit("null")

Digits == {"0", "7"}
Literals == {"true", "false", "null"}

ParseFail == [ok |-> FALSE, pos |-> 0, val |-> JNone]
ParseOk(val, pos) == [ok |-> TRUE, pos |-> pos, val |-> val]

At(text, i) == IF i >= 1 /\ i <= Len(text) THEN text[i] ELSE "<eof>"

RECURSIVE SkipWs(_, _)
SkipWs(text, i) ==
    IF At(text, i) \in Whitespace THEN SkipWs(text, i + 1) ELSE i

\* the characters of a string literal, from just after its opening quote
RECURSIVE ScanString(_, _, _)
ScanString(text, i, acc) ==
    LET c == At(text, i)
    IN  IF c = "<eof>" THEN ParseFail
        ELSE IF c = DQ THEN ParseOk(JStr(acc), i + 1)
        ELSE IF c = NL THEN ParseFail          \* raw control character
        ELSE IF c = BS
        THEN LET e == At(text, i + 1)
             IN  IF e = DQ THEN ScanString(text, i + 2, Append(acc, DQ))
                 ELSE IF e = BS THEN ScanString(text, i + 2, Append(acc, BS))
                 ELSE IF e = "n" THEN ScanString(text, i + 2, Append(acc, NL))
                 ELSE ParseFail
        ELSE ScanString(text, i + 1, Append(acc, c))

RECURSIVE ParseValue(_, _)
RECURSIVE ParseMembers(_, _, _)
RECURSIVE ParseElements(_, _, _)

ParseValue(text, i) ==
    LET c == At(text, i)
    IN  IF c = DQ THEN ScanString(text, i + 1, <<>>)
        ELSE IF c = "{"
        THEN LET j == SkipWs(text, i + 1)
             IN  IF At(text, j) = "}" THEN ParseOk(JObj(<<>>), j + 1)
                 ELSE ParseMembers(text, j, <<>>)
        ELSE IF c = "["
        THEN LET j == SkipWs(text, i + 1)
             IN  IF At(text, j) = "]" THEN ParseOk(JList(<<>>), j + 1)
                 ELSE ParseElements(text, j, <<>>)
        ELSE IF c \in Digits THEN ParseOk(JNum(<<c>>), i + 1)
        ELSE IF c \in Literals THEN ParseOk(JLit(c), i + 1)
        ELSE ParseFail

\* "key": value pairs up to the closing brace; i is at the next key
ParseMembers(text, i, acc) ==
    IF At(text, i) # DQ THEN ParseFail
    ELSE
    LET k == ScanString(text, i + 1, <<>>)
    IN  IF ~k.ok THEN ParseFail
        ELSE
        LET c == SkipWs(text, k.pos)
        IN  IF At(text, c) # ":" THEN ParseFail
            ELSE
            LET v == ParseValue(text, SkipWs(text, c + 1))
            IN  IF ~v.ok THEN ParseFail
                ELSE
                LET e == SkipWs(text, v.pos)
                    got == Append(acc, [key |-> k.val.s, val |-> v.val])
                IN  IF At(text, e) = "}" THEN ParseOk(JObj(got), e + 1)
                    ELSE IF At(text, e) = ","
                    THEN ParseMembers(text, SkipWs(text, e + 1), got)
                    ELSE ParseFail

\* values up to the closing bracket; i is at the next value
ParseElements(text, i, acc) ==
    LET v == ParseValue(text, i)
    IN  IF ~v.ok THEN ParseFail
        ELSE
        LET e == SkipWs(text, v.pos)
            got == Append(acc, v.val)
        IN  IF At(text, e) = "]" THEN ParseOk(JList(got), e + 1)
            ELSE IF At(text, e) = ","
            THEN ParseElements(text, SkipWs(text, e + 1), got)
            ELSE ParseFail

\* json.loads(text): one value, nothing but whitespace around it
json_loads(text) ==
    LET v == ParseValue(text, SkipWs(text, 1))
    IN  IF v.ok /\ SkipWs(text, v.pos) > Len(text) THEN v ELSE ParseFail

\* key in parsed / parsed.get(key): the last pair read for a key wins
HasKey(obj, key) == \E i \in DOMAIN obj.fields : obj.fields[i].key = <<key>>

GetKey(obj, key) ==
    LET hits == { i \in DOMAIN obj.fields : obj.fields[i].key = <<key>> }
    IN  obj.fields[CHOOSE i \in hits : \A j \in hits : j <= i].val

----------------------------------------------------------------------------
(* _extract_json_fragment: the first balanced {...} outside string         *)
(* literals, as [found, text].                                             *)

RECURSIVE FragmentScan(_, _, _, _, _, _)
FragmentScan(text, index, depth, start, in_string, escape) ==
    IF index > Len(text) THEN [found |-> FALSE, text |-> <<>>]
    ELSE
    LET char == text[index]
    IN  IF in_string
        THEN IF escape
             THEN FragmentScan(text, index + 1, depth, start, TRUE, FALSE)
             ELSE IF char = BS
             THEN FragmentScan(text, index + 1, depth, start, TRUE, TRUE)
             ELSE IF char = DQ
             THEN FragmentScan(text, index + 1, depth, start, FALSE, FALSE)
             ELSE FragmentScan(text, index + 1, depth, start, TRUE, FALSE)
        ELSE IF char = DQ
        THEN FragmentScan(text, index + 1, depth, start, TRUE, escape)
        ELSE IF char = "{"
        THEN FragmentScan(text, index + 1, depth + 1,
                          IF depth = 0 THEN index ELSE start, FALSE, escape)
        ELSE IF char = "}"
        THEN IF depth = 0
             THEN FragmentScan(text, index + 1, depth, start, FALSE, escape)
             ELSE IF depth - 1 = 0 /\ start # 0
             THEN [found |-> TRUE, text |-> SubSeq(text, start, index)]
             ELSE FragmentScan(text, index + 1, depth - 1, start, FALSE, escape)
        ELSE FragmentScan(text, index + 1, depth, start, FALSE, escape)

extract_json_fragment(text) == FragmentScan(text, 1, 0, 0, FALSE, FALSE)

----------------------------------------------------------------------------
(* OllamaPlanner._extract_commands                                         *)

\* payload.splitlines()
RECURSIVE SplitLines(_, _, _)
SplitLines(text, i, line) ==
    IF i > Len(text) THEN (IF line = <<>> THEN <<>> ELSE <<line>>)
    ELSE IF text[i] = NL THEN <<line>> \o SplitLines(text, i + 1, <<>>)
    ELSE SplitLines(text, i + 1, Append(line, text[i]))

\* raw.strip("#")
RECURSIVE StripHash(_)
StripHash(line) ==
    IF line # <<>> /\ Head(line) = HASH THEN StripHash(Tail(line))
    ELSE IF line # <<>> /\ Last(line) = HASH
    THEN StripHash(SubSeq(line, 1, Len(line) - 1))
    ELSE line

Brackets == {"{", "}", "[", "]"}

\* the line as a literal command, or <<>> when the loop skips it
LineCommand(line) ==
    LET raw == Strip(line)
        stripped == Strip(StripHash(raw))
    IN  IF raw = <<>> THEN <<>>
        ELSE IF stripped = <<>> THEN <<>>
        ELSE IF Len(stripped) = 1 /\ stripped[1] \in Brackets THEN <<>>
        ELSE IF Head(stripped) \in Brackets \/ Last(stripped) \in Brackets
        THEN <<>>
        ELSE IF \E i \in DOMAIN stripped : stripped[i] = ":" THEN <<>>
        ELSE IF Head(stripped) = DQ /\ Last(stripped) = DQ THEN <<>>
        ELSE stripped

\* Faulty variant: the line loop without its break.
RECURSIVE CollectLinesUncapped(_, _, _, _)
CollectLinesUncapped(lines, i, commands, max_commands) ==
    IF i > Len(lines) THEN commands
    ELSE LET c == LineCommand(lines[i])
         IN  IF c = <<>>
             THEN CollectLinesUncapped(lines, i + 1, commands, max_commands)
             ELSE CollectLinesUncapped(lines, i + 1, Append(commands, c),
                                       max_commands)

\* for line in payload.splitlines(): ... append; break at max_commands
RECURSIVE CollectLines(_, _, _, _)
CollectLines(lines, i, commands, max_commands) ==
    IF i > Len(lines) THEN commands
    ELSE LET c == LineCommand(lines[i])
         IN  IF c = <<>>
             THEN CollectLines(lines, i + 1, commands, max_commands)
             ELSE IF Len(commands) + 1 >= max_commands
             THEN Append(commands, c)
             ELSE CollectLines(lines, i + 1, Append(commands, c), max_commands)

\* Faulty variant: entries are taken as they are, blank ones included.
RECURSIVE CollectEntriesRaw(_, _, _, _)
CollectEntriesRaw(entries, i, result, max_commands) ==
    IF i > Len(entries) THEN result
    ELSE LET entry == entries[i]
             got == IF entry.t = "str" THEN Append(result, entry.s) ELSE result
         IN  IF Len(got) >= max_commands THEN got
             ELSE CollectEntriesRaw(entries, i + 1, got, max_commands)

\* for entry in commands: keep stripped non-empty strings; break at max
RECURSIVE CollectEntries(_, _, _, _)
CollectEntries(entries, i, result, max_commands) ==
    IF i > Len(entries) THEN result
    ELSE LET entry == entries[i]
             cleaned == IF entry.t = "str" THEN Strip(entry.s) ELSE <<>>
             got == IF cleaned # <<>> THEN Append(result, cleaned) ELSE result
         IN  IF Len(got) >= max_commands THEN got
             ELSE CollectEntries(entries, i + 1, got, max_commands)

\* json.loads of the {...} fragment, when there is one
ParseFragment(fragment) ==
    IF fragment.found /\ fragment.text # <<>>
    THEN json_loads(fragment.text)
    ELSE ParseFail

\* parsed: json.loads(payload), else json.loads of the {...} fragment
ParseWhole(whole, payload) ==
    IF whole.ok THEN whole ELSE ParseFragment(extract_json_fragment(payload))

ParsePayload(payload) == ParseWhole(json_loads(payload), payload)

IsDict(parsed) == parsed.ok /\ parsed.val.t = "obj"

\* the result list of the "commands" branch, <<>> when it is not taken
Structured(parsed, max_commands) ==
    IF IsDict(parsed) /\ HasKey(parsed.val, "commands")
                      /\ GetKey(parsed.val, "commands").t = "list"
    THEN CollectEntries(GetKey(parsed.val, "commands").items, 1, <<>>,
                        max_commands)
    ELSE <<>>

\* if result: return result; else the line loop
StructuredOrLines(structured, payload, max_commands) ==
    IF structured # <<>> THEN structured
    ELSE CollectLines(SplitLines(payload, 1, <<>>), 1, <<>>, max_commands)

RECURSIVE extract_commands(_, _)
RECURSIVE ExtractParsed(_, _, _)

\* _extract_commands from the isinstance tests on
ExtractParsed(parsed, payload, max_commands) ==
    IF IsDict(parsed) /\ HasKey(parsed.val, "response")
                      /\ ~HasKey(parsed.val, "commands")
    THEN IF GetKey(parsed.val, "response").t = "str"
         THEN extract_commands(GetKey(parsed.val, "response").s, max_commands)
         ELSE <<>>
    ELSE StructuredOrLines(Structured(parsed, max_commands), payload,
                           max_commands)

ExtractStripped(payload, max_commands) ==
    IF payload = <<>> THEN <<>>
    ELSE ExtractParsed(ParsePayload(payload), payload, max_commands)

extract_commands(body, max_commands) ==
    IF body = <<>> THEN <<>> ELSE ExtractStripped(Strip(body), max_commands)

----------------------------------------------------------------------------
(* The oracle's side: bodies are encoded from a source value, the way      *)
(* json.dumps writes them.  A source is [kind, cmds, lines]; an entry of   *)
(* cmds is [str, s, clean]: a string with characters s, or a number;       *)
(* clean is the command the entry stands for, <<>> when it stands for none.*)

\* Bounds on the sources tried.
MaxListLen == 4
MaxLines == 4

RECURSIVE Escape(_)
Escape(chars) ==
    IF chars = <<>> THEN <<>>
    ELSE LET c == Head(chars)
         IN  (IF c = DQ THEN <<BS, DQ>>
              ELSE IF c = BS THEN <<BS, BS>>
              ELSE IF c = NL THEN <<BS, "n">>
              ELSE <<c>>) \o Escape(Tail(chars))

EncodeString(chars) == <<DQ>> \o Escape(chars) \o <<DQ>>

EncodeEntry(e) == IF e.str THEN EncodeString(e.s) ELSE e.s

RECURSIVE EncodeItems(_, _)
EncodeItems(cmds, sep) ==
    IF cmds = <<>> THEN <<>>
    ELSE IF Len(cmds) = 1 THEN EncodeEntry(cmds[1])
    ELSE EncodeEntry(cmds[1]) \o sep \o EncodeItems(Tail(cmds), sep)

\* {"commands": [..]}
EncodeDirect(cmds) ==
    <<"{", DQ, "commands", DQ, ":", SP, "[">>
        \o EncodeItems(cmds, <<",", SP>>) \o <<"]", "}">>

\* the same object written with indent and one entry per line
EncodeDirectPretty(cmds) ==
    IF cmds = <<>>
    THEN <<"{", NL, SP, DQ, "commands", DQ, ":", SP, "[", "]", NL, "}">>
    ELSE <<"{", NL, SP, DQ, "commands", DQ, ":", SP, "[", NL, SP, SP>>
            \o EncodeItems(cmds, <<",", NL, SP, SP>>)
            \o <<NL, SP, "]", NL, "}">>

\* {"model": "m", "response": "<the direct object>", "done": true}
EncodeWrapped(cmds) ==
    <<"{", DQ, "model", DQ, ":", SP, DQ, "m", DQ, ",", SP,
      DQ, "response", DQ, ":", SP>>
        \o EncodeString(EncodeDirect(cmds))
        \o <<",", SP, DQ, "done", DQ, ":", SP, "true", "}">>

Join(lines) ==
    LET RECURSIVE J(_)
        J(q) == IF q = <<>> THEN <<>>
                ELSE IF Len(q) = 1 THEN q[1].raw
                ELSE q[1].raw \o <<NL>> \o J(Tail(q))
    IN  J(lines)

Encode(source) ==
    CASE source.kind = "direct" -> EncodeDirect(source.cmds)
      [] source.kind = "direct_pretty" -> EncodeDirectPretty(source.cmds)
      [] source.kind = "wrapped" -> EncodeWrapped(source.cmds)
      [] source.kind = "chatter" -> <<"Sure", SP>> \o EncodeDirect(source.cmds)
      [] source.kind = "truncated" ->
            SubSeq(EncodeDirect(source.cmds), 1, Len(EncodeDirect(source.cmds)) - 2)
      [] source.kind = "truncated_pretty" ->
            SubSeq(EncodeDirectPretty(source.cmds), 1,
                   Len(EncodeDirectPretty(source.cmds))
                       - (IF source.cmds = <<>> THEN 2 ELSE 5))
      [] source.kind = "text" -> Join(source.lines)
      [] source.kind = "none" -> <<>>

StringEntry(chars, clean) == [str |-> TRUE, s |-> chars, clean |-> clean]

Entries ==
    { StringEntry(<<"look">>, <<"look">>),
      StringEntry(<<"go", SP, "west">>, <<"go", SP, "west">>),
      StringEntry(<<>>, <<>>),
      StringEntry(<<SP, "look">>, <<"look">>),
      [str |-> FALSE, s |-> <<"7">>, clean |-> <<>>] }

\* raw: the line as written; cmd: the command it stands for, <<>> when it
\* is blank or looks like JSON
TextLines ==
    { [raw |-> <<"look">>, cmd |-> <<"look">>],
      [raw |-> <<SP, HASH, SP, "west", SP>>, cmd |-> <<"west">>],
      [raw |-> <<>>, cmd |-> <<>>],
      [raw |-> <<DQ, "note", DQ, ":", SP, DQ, "x", DQ>>, cmd |-> <<>>],
      [raw |-> <<"{">>, cmd |-> <<>>] }

StructuredKinds == {"direct", "direct_pretty", "wrapped"}

\* bodies cut off before the object closes: no JSON value, no fragment
MalformedKinds == {"truncated", "truncated_pretty"}

NoSource == [kind |-> "none", cmds |-> <<>>, lines |-> <<>>]

\* the source values with lists of up to n entries and up to m lines
Sources(n, m) ==
    { [kind |-> k, cmds |-> c, lines |-> <<>>] :
        k \in StructuredKinds, c \in SeqsUpTo(Entries, n) }
    \cup { [kind |-> k, cmds |-> c, lines |-> <<>>] :
             k \in {"chatter"} \cup MalformedKinds,
             c \in SeqsUpTo(Entries, 2) }
    \cup { [kind |-> "text", cmds |-> <<>>, lines |-> l] :
             l \in SeqsUpTo(TextLines, m) }
    \cup { NoSource }

\* the bodies the oracle answers with in the session specification
OracleSources ==
    { [kind |-> "direct", lines |-> <<>>,
       cmds |-> << StringEntry(<<"look">>, <<"look">>),
                   StringEntry(<<"go", SP, "west">>, <<"go", SP, "west">>) >>],
      [kind |-> "truncated", lines |-> <<>>,
       cmds |-> << StringEntry(<<"look">>, <<"look">>) >>] }

\* the texts one read_very_eager call returns
ServerTokens ==
    { Tok("username_prompt", 0, 0), Tok("password_prompt", 0, 0),
      Tok("status_prompt", 80, 40), Tok("status_prompt", 60, 30),
      Tok("travelto_start", 0, 0), Tok("travelto_end", 0, 0) }

ServerTexts == SeqsUpTo(ServerTokens, MaxChunkTokens) \ {<<>>}

\* the texts received in the specification of the planner worker
WakeTexts ==
    { <<Tok("status_prompt", 80, 40)>>, <<Tok("experience_gain", 0, 0)>> }

----------------------------------------------------------------------------
(* Actions.                                                                *)

World(who) == [s |-> session, p |-> planner, o |-> NewObs(who)]

\* the planner between two handlers
Settled(p) == [p EXCEPT !.log = NoLog]

Commit(w) ==
    /\ session' = w.s
    /\ planner' = Settled(w.p)
    /\ obs' = [w.o EXCEPT !.log = w.p.log]

WorkerInit ==
    [ pc |-> "wait",        \* wait, woken, build, query, http, extract, send;
                            \* "dead" once an exception has ended the thread
      attempt |-> 0,        \* the value of _query_ollama's loop variable
      requests |-> 0,       \* HTTP attempts made by this round
      reason |-> NoReason,  \* the trigger reason inside the built prompt
      response |-> <<>>,    \* the oracle body, <<>> for None
      commands |-> <<>>,    \* the list _extract_commands returned
      next |-> 1,           \* position of the for loop in commands
      written |-> <<>>,     \* lines this round wrote to the connection
      failed_profile |-> 0 ] \* the profile of the session whose write raised

\* _listen_loop: read_very_eager returned text
ListenerReceive(text) ==
    /\ session.listener = "alive"
    /\ ~session.stop_event
    /\ session.connection # 0
    /\ Commit(listen_text(World("listener"), text))
    /\ UNCHANGED <<worker, main, src, net>>

\* _listen_loop: the read raised EOFError / OSError, or the loop saw the stop
\* event; the thread ends
ListenerClose ==
    /\ session.listener = "alive"
    /\ session' = [session EXCEPT !.stop_event = TRUE, !.connection = 0,
                                  !.listener = "dead"]
    /\ obs' = NewObs("listener")
    /\ UNCHANGED <<planner, worker, main, src, net>>

NextProfile(i) == (i % Len(DEFAULT_PROFILES)) + 1

\* run_client: session.connect(profile) succeeded
MainConnect ==
    /\ main.pc = "connect"
    /\ Commit(connect_ok(World("main"), main.profile_index))
    /\ main' = [main EXCEPT !.pc = "watch"]
    /\ UNCHANGED <<worker, src, net>>

\* a retry that keeps the profile
MainConnectFailSameProfile ==
    /\ main.pc = "connect"
    /\ Commit(connect_failed(World("main"), main.profile_index))
    /\ UNCHANGED <<main, worker, src, net>>

\* run_client: session.connect(profile) raised; sleep, next profile
MainConnectFail ==
    /\ main.pc = "connect"
    /\ Commit(connect_failed(World("main"), main.profile_index))
    /\ main' = [main EXCEPT !.profile_index = NextProfile(@)]
    /\ UNCHANGED <<worker, src, net>>

\* run_client: the listener is no longer alive; disconnect, next profile
MainReconnect ==
    /\ main.pc = "watch"
    /\ session.listener # "alive"
    /\ Commit(IF session.listener # "none" \/ session.connection # 0
              THEN disconnect(World("main"))
              ELSE World("main"))
    /\ main' = [pc |-> "connect", profile_index |-> NextProfile(main.profile_index)]
    /\ UNCHANGED <<worker, src, net>>

\* _worker_loop: _request_event.wait() returns
WorkerWake ==
    /\ worker.pc = "wait"
    /\ planner.request_event
    /\ worker' = [worker EXCEPT !.pc = "woken"]
    /\ UNCHANGED <<session, planner, main, obs, src, net>>

\* _worker_loop: _request_event.clear()
WorkerClear ==
    /\ worker.pc = "woken"
    /\ planner' = [planner EXCEPT !.request_event = FALSE]
    /\ worker' = [worker EXCEPT !.pc = "build"]
    /\ UNCHANGED <<session, main, obs, src, net>>

\* _worker_loop: payload = self._build_prompt()
WorkerBuild ==
    /\ worker.pc = "build"
    /\ LET b == build_prompt(planner)
       IN  IF b.payload
           THEN /\ planner' = [b.p EXCEPT !.rounds_after_wake =
                                             IF @ < 2 THEN @ + 1 ELSE @]
                /\ worker' = [worker EXCEPT !.pc = "query", !.attempt = 1,
                                            !.requests = 0,
                                            !.reason = b.reason]
           ELSE /\ planner' = b.p
                /\ worker' = [worker EXCEPT !.pc = "wait"]
    /\ obs' = NewObs("worker")
    /\ UNCHANGED <<session, main, src, net>>

\* _query_ollama: one attempt sends its HTTP request
WorkerRequest ==
    /\ worker.pc = "query"
    /\ planner' = [planner EXCEPT !.inflight = @ + 1]
    /\ worker' = [worker EXCEPT !.pc = "http", !.requests = @ + 1]
    /\ UNCHANGED <<session, main, obs, src, net>>

\* _query_ollama: HTTP 200, the body is read and returned
WorkerHttpOk(source) ==
    /\ worker.pc = "http"
    /\ planner' = [planner EXCEPT !.inflight = @ - 1]
    /\ worker' = [worker EXCEPT !.pc = "extract", !.response = Encode(source)]
    /\ src' = source
    /\ UNCHANGED <<session, main, obs, net>>

\* a retry loop that runs one attempt too many
WorkerHttpFailOneMore ==
    /\ worker.pc = "http"
    /\ planner' = [planner EXCEPT !.inflight = @ - 1]
    /\ IF worker.attempt <= OLLAMA_MAX_RETRIES + 1
       THEN worker' = [worker EXCEPT !.pc = "query", !.attempt = @ + 1]
       ELSE worker' = [worker EXCEPT !.pc = "extract", !.response = <<>>]
    /\ src' = NoSource
    /\ UNCHANGED <<session, main, obs, net>>

\* _query_ollama: timeout, transport error or non-200 status; retry after
\* the sleep, or give up and return None
WorkerHttpFail ==
    /\ worker.pc = "http"
    /\ planner' = [planner EXCEPT !.inflight = @ - 1]
    /\ IF worker.attempt < OLLAMA_MAX_RETRIES + 1
       THEN worker' = [worker EXCEPT !.pc = "query", !.attempt = @ + 1]
       ELSE worker' = [worker EXCEPT !.pc = "extract", !.response = <<>>]
    /\ src' = NoSource
    /\ UNCHANGED <<session, main, obs, net>>

\* _worker_loop: commands = self._extract_commands(response)
WorkerExtract ==
    /\ worker.pc = "extract"
    /\ LET commands == extract_commands(worker.response, planner.max_commands)
       IN  worker' = [worker EXCEPT
                         !.pc = IF commands = <<>> THEN "wait" ELSE "send",
                         !.commands = commands, !.next = 1, !.written = <<>>]
    /\ UNCHANGED <<session, planner, main, obs, src, net>>

\* a loop that takes the commands from the end of the list
WorkerSendLastFirst ==
    /\ worker.pc = "send"
    /\ LET w == send_command(World("worker"),
                             worker.commands[Len(worker.commands) + 1
                                             - worker.next],
                             "ollama")
       IN  /\ Commit(w)
           /\ worker' = [worker EXCEPT
                 !.pc = IF worker.next = Len(worker.commands)
                        THEN "wait" ELSE "send",
                 !.next = @ + 1,
                 !.written = @ \o [i \in DOMAIN w.o.sent |-> w.o.sent[i].line]]
    /\ UNCHANGED <<main, src, net>>

\* _worker_loop: self._send_callback(command), then the 0.35 s sleep
WorkerSend ==
    /\ worker.pc = "send"
    /\ LET w == send_command(World("worker"), worker.commands[worker.next],
                             "ollama")
       IN  /\ Commit(w)
           /\ worker' = [worker EXCEPT
                 !.pc = IF worker.next = Len(worker.commands)
                        THEN "wait" ELSE "send",
                 !.next = @ + 1,
                 !.written = @ \o [i \in DOMAIN w.o.sent |-> w.o.sent[i].line]]
    /\ UNCHANGED <<main, src, net>>

\* _worker_loop: connection.write raised OSError inside send_command; no
\* handler is in the way up to the top of the thread
WorkerSendFail ==
    /\ worker.pc = "send"
    /\ session.connection # 0
    /\ worker' = [worker EXCEPT !.pc = "dead",
                                !.failed_profile = session.profile]
    /\ obs' = NewObs("worker")
    /\ UNCHANGED <<session, planner, main, src, net>>

----------------------------------------------------------------------------
(* The connection handle, statement by statement.  net.connection is       *)
(* self.connection: 0 for None, else the number of the Telnet object, in   *)
(* order of creation; listener thread k is the one connect() started after *)
(* creating object k.                                                      *)

\* Bound on the Telnet objects created.
MaxConnections == 2

\* Bound on the send_command / send_blank calls of one run.
MaxWrites == 3

\* the threads that call send_command and send_blank: the listener (the
\* detector path), the planner worker and the console thread
Writers == {"listener", "worker", "console"}

\* the commands each may send; <<>> is send_blank
WriterCommands(w) ==
    CASE w = "listener" -> { <<"M", "a">>, <<>> }
      [] w = "worker" -> { <<"l", "k">> }
      [] w = "console" -> { <<"g", "o">>, <<>> }

WriterIdle == [pc |-> "idle", payload |-> <<>>, pos |-> 1]

\* the threads that call methods of the planner: the reader (the listener
\* with its detectors), the planner worker, the console thread and run_client
PlannerThreads == {"listener", "worker", "console", "main"}

\* the planner method a thread is in: "out" (in none), "lock" (at its
\* `with self._lock`), "in" (inside the block)
PlannerIdle == [pc |-> "out", method |-> "none"]

NetInit ==
    [ connection |-> 0,
      made |-> 0,                 \* Telnet objects created so far
      closed |-> {},              \* objects closed, locally or by the server
      stop_event |-> FALSE,
      listener |-> 0,             \* self._listener: 0 for None, or a thread
      thread |-> [k \in 1..MaxConnections |-> "unborn"],
                                  \* _listen_loop of thread k: unborn, check,
                                  \* read, clear, done
      pc |-> [main |-> "loop", console |-> "input"],
      in_finally |-> FALSE,       \* run_client has reached its finally block
      exit_requested |-> FALSE,
      \* observation: <<k, h>> for a read / a clearing by thread k of the
      \* attribute while it held object h
      reads |-> {},
      clears |-> {},
      send_lock |-> "free",       \* "free" or the thread holding _send_lock
      wire |-> <<>>,              \* the bytes written to the connection
      writes |-> 0,               \* send_command / send_blank calls begun
      writer |-> [w \in Writers |-> WriterIdle],
      plock |-> "free",           \* "free" or the thread holding planner._lock
      pcall |-> [t \in PlannerThreads |-> PlannerIdle],
      wpos |-> "wait",            \* _worker_loop: wait, build, http, send, sleep
      monotonic |-> 0,            \* the reading of time.monotonic(), in seconds
      paging |-> FALSE ]          \* the server has sent a page marker and
                                  \* sends no more until it gets input

ClientUnchanged == UNCHANGED <<session, planner, worker, main, obs, src>>

Goto(t, label) == [net EXCEPT !.pc[t] = label]

\* disconnect(), called by thread t: run_client or the console thread.
\* join(timeout=1.0) returns when the listener has ended or after 1 s,
\* whichever is first, so it holds the caller back in neither case.
DisconnectStep(t) ==
    /\ net.pc[t] \in {"d_stop", "d_close", "d_join"}
    /\ net' = CASE net.pc[t] = "d_stop" ->
                    [Goto(t, "d_close") EXCEPT !.stop_event = TRUE]
               [] net.pc[t] = "d_close" ->
                    IF net.connection # 0
                    THEN [Goto(t, "d_join") EXCEPT
                             !.closed = @ \cup {net.connection},
                             !.connection = 0]
                    ELSE Goto(t, "d_join")
               [] net.pc[t] = "d_join" ->
                    [Goto(t, IF t = "console" THEN "set_exit"
                             ELSE IF net.in_finally THEN "done"
                             ELSE "exit_check")
                     EXCEPT !.listener = 0]
    /\ ClientUnchanged

\* ConsoleInputThread.run: the line read is ":exit" (disconnect, then the
\* exit flag), or stdin is at its end (the exit flag alone)
ConsoleStep ==
    /\ net.pc.console \in {"input", "set_exit"}
    /\ \/ net.pc.console = "input" /\ net' = Goto("console", "d_stop")
       \/ net' = [Goto("console", "done") EXCEPT !.exit_requested = TRUE]
    /\ ClientUnchanged

\* TelnetSession.connect, called by run_client
ConnectStep ==
    /\ net.pc.main \in {"c_clear", "c_open", "c_start"}
    /\ \/ /\ net.pc.main = "c_clear"
          /\ net' = [Goto("main", "c_open") EXCEPT !.stop_event = FALSE]
       \/ /\ net.pc.main = "c_open"
          /\ net.made < MaxConnections
          /\ net' = [Goto("main", "c_start") EXCEPT
                        !.made = @ + 1, !.connection = net.made + 1]
       \/ /\ net.pc.main = "c_open"
          /\ net' = Goto("main", "c_failed")
       \/ /\ net.pc.main = "c_start"
          /\ net' = [Goto("main", "watch") EXCEPT
                        !.listener = net.made,
                        !.thread[net.made] = "check"]
    /\ ClientUnchanged

ListenerAlive == net.listener # 0 /\ net.thread[net.listener] # "done"

\* run_client: the loop around connect, the watch loop and what follows
MainStep ==
    /\ net.pc.main \in {"loop", "c_failed", "watch", "after_watch",
                        "exit_check", "finally"}
    /\ net.pc.main = "watch" => (net.exit_requested \/ ~ListenerAlive)
    /\ net' = CASE net.pc.main = "loop" ->
                    Goto("main", IF net.exit_requested THEN "finally"
                                 ELSE "c_clear")
               [] net.pc.main = "c_failed" ->
                    Goto("main", IF net.exit_requested THEN "finally"
                                 ELSE "loop")
               [] net.pc.main = "watch" -> Goto("main", "after_watch")
               [] net.pc.main = "after_watch" ->
                    Goto("main", IF net.listener # 0 \/ net.connection # 0
                                 THEN "d_stop" ELSE "exit_check")
               [] net.pc.main = "exit_check" ->
                    Goto("main", IF net.exit_requested THEN "finally"
                                 ELSE "loop")
               [] net.pc.main = "finally" ->
                    [Goto("main", IF net.listener # 0 \/ net.connection # 0
                                  THEN "d_stop" ELSE "done")
                     EXCEPT !.in_finally = TRUE]
    /\ ClientUnchanged

\* _listen_loop of thread k: the loop test, the read through
\* self.connection, and the two statements after the loop
ListenerStep(k) ==
    /\ net.thread[k] \in {"check", "read", "clear"}
    /\ \/ /\ net.thread[k] = "check"
          /\ net' = [net EXCEPT !.thread[k] =
                                    IF net.stop_event THEN "clear" ELSE "read"]
       \/ \* self.connection is None: AttributeError ends the thread
          /\ net.thread[k] = "read" /\ net.connection = 0
          /\ net' = [net EXCEPT !.thread[k] = "done"]
       \/ \* EOFError: the object was closed, or the server closes it now
          /\ net.thread[k] = "read" /\ net.connection # 0
          /\ net' = [net EXCEPT !.thread[k] = "clear",
                                !.closed = @ \cup {net.connection}]
       \/ \* the read returns; its text is processed
          /\ net.thread[k] = "read" /\ net.connection # 0
          /\ net.connection \notin net.closed
          /\ net' = [net EXCEPT !.thread[k] = "check",
                                !.reads = @ \cup {<<k, net.connection>>}]
       \/ /\ net.thread[k] = "clear"
          /\ net' = [net EXCEPT
                        !.thread[k] = "done",
                        !.stop_event = TRUE,
                        !.connection = 0,
                        !.clears = IF net.connection # 0
                                   THEN @ \cup {<<k, net.connection>>}
                                   ELSE @]
    /\ ClientUnchanged

\* a write that does not wait for the lock
SendLockIgnored == TRUE

\* with self._send_lock: the lock can be taken
SendLockFree == net.send_lock = "free"

\* send_command / send_blank in thread w: the handle test and the payload,
\* the lock, connection.write (sendall) one byte at a time, the release.
\* self.connection is read a second time for the write: when it is None by
\* then, the attribute access raises AttributeError, the with statement
\* releases the lock and the exception leaves send_command ("raised").
WriterStep(w) ==
    /\ \/ /\ net.writer[w].pc = "idle"
          /\ net.connection # 0
          /\ net.writes < MaxWrites
          /\ \E command \in WriterCommands(w) :
                net' = [net EXCEPT
                          !.writes = @ + 1,
                          !.writer[w] = [pc |-> "lock",
                                         payload |-> command \o <<NL>>,
                                         pos |-> 1]]
       \/ /\ net.writer[w].pc = "lock"
          /\ SendLockFree
          /\ net' = [net EXCEPT !.send_lock = w, !.writer[w].pc = "write"]
       \/ /\ net.writer[w].pc = "write"
          /\ net' = IF net.writer[w].pos = 1 /\ net.connection = 0
                    THEN [net EXCEPT !.send_lock = "free",
                                     !.writer[w].pc = "raised"]
                    ELSE [net EXCEPT
                        !.wire = Append(@, net.writer[w].payload[net.writer[w].pos]),
                        !.writer[w].pos = @ + 1,
                        !.writer[w].pc =
                            IF net.writer[w].pos = Len(net.writer[w].payload)
                            THEN "unlock" ELSE "write"]
       \/ /\ net.writer[w].pc = "unlock"
          /\ net' = [net EXCEPT !.send_lock = "free",
                                !.writer[w] = WriterIdle]
    /\ ClientUnchanged

----------------------------------------------------------------------------
(* The planner's mutex, statement by statement.  net.plock is self._lock,  *)
(* net.pcall[t] the planner method thread t is executing, net.wpos the     *)
(* position of _worker_loop between its planner calls.  A method's effect  *)
(* on the planner, with the event set or cleared right after its block,    *)
(* takes place in the step that leaves the block.                          *)

\* the planner methods each thread calls: the reader from _listen_loop and
\* _process_buffer, the worker from _worker_loop (record_command through the
\* send callback and send_command), the console through send_command,
\* run_client through connect (reset) and disconnect (deactivate)
PlannerCalls(t) ==
    CASE t = "listener" -> {"observe_output", "update_vitals", "note_event",
                            "request_commands", "record_command"}
      [] t = "worker" -> {"_build_prompt", "record_command"}
      [] t = "console" -> {"record_command"}
      [] t = "main" -> {"reset", "deactivate"}

\* the planner after the method's locked block
CallEffect(method, p) ==
    CASE method = "observe_output" -> observe_output(p, TokChars)
      [] method = "update_vitals" -> update_vitals(p, 15, 10)
      [] method = "note_event" -> note_event(p, Issue("Status prompt available", <<>>, 1))
      [] method = "request_commands" -> request_commands(p, "prompt")
      [] method = "record_command" -> record_command(p, <<"l", "k">>)
      [] method = "_build_prompt" -> build_prompt(p).p
      [] method = "reset" -> reset(p)
      [] method = "deactivate" -> deactivate(p)

\* a lock that is not looked at
PlannerLockIgnored == TRUE

\* with self._lock: the lock can be taken
PlannerLockFree == net.plock = "free"

\* a worker that keeps the lock when _build_prompt returns
LockKept(t) == IF t = "worker" THEN t ELSE "free"

\* the end of the `with self._lock` block of thread t
LockAfter(t) == "free"

\* where _worker_loop goes when its planner call returns
WorkerAfterCall(method) ==
    IF method = "_build_prompt"
    THEN (IF build_prompt(planner).payload THEN "http" ELSE "wait")
    ELSE "sleep"

\* thread t calls a planner method, takes the lock, leaves the block
PlannerStep(t) ==
    /\ \/ /\ net.pcall[t].pc = "out"
          /\ \E method \in PlannerCalls(t) :
                /\ t = "worker" =>
                      net.wpos = (IF method = "_build_prompt" THEN "build"
                                  ELSE "send")
                /\ net' = [net EXCEPT !.pcall[t] = [pc |-> "lock",
                                                    method |-> method]]
          /\ UNCHANGED planner
       \/ /\ net.pcall[t].pc = "lock"
          /\ PlannerLockFree
          /\ net' = [net EXCEPT !.plock = t, !.pcall[t].pc = "in"]
          /\ UNCHANGED planner
       \/ /\ net.pcall[t].pc = "in"
          /\ planner' = Settled(CallEffect(net.pcall[t].method, planner))
          /\ net' = [net EXCEPT
                        !.plock = LockAfter(t),
                        !.pcall[t] = PlannerIdle,
                        !.wpos = IF t = "worker"
                                 THEN WorkerAfterCall(net.pcall[t].method)
                                 ELSE @]
    /\ UNCHANGED <<session, worker, main, obs, src>>

\* _worker_loop outside the planner's methods: the event wait and clear,
\* the oracle round-trip with its retries (commands or none), and the
\* 0.35 s sleep after a command (another command or none)
WorkerLoopStep ==
    /\ net.pcall["worker"].pc = "out"
    /\ \/ /\ net.wpos = "wait"
          /\ planner.request_event
          /\ planner' = [planner EXCEPT !.request_event = FALSE]
          /\ net' = [net EXCEPT !.wpos = "build"]
       \/ /\ net.wpos \in {"http", "sleep"}
          /\ \E next \in {"send", "wait"} : net' = [net EXCEPT !.wpos = next]
          /\ UNCHANGED planner
    /\ UNCHANGED <<session, worker, main, obs, src>>

----------------------------------------------------------------------------
(* Specifications.                                                         *)

MainInit == [pc |-> "connect", profile_index |-> 1]

\* The client after construction: run_client before its first connect.
Init ==
    /\ session = SessionInit
    /\ planner = PlannerInit(DEFAULT_MAX_CONTEXT_CHARS)
    /\ worker = WorkerInit
    /\ main = MainInit
    /\ obs = NewObs("init")
    /\ src = NoSource
    /\ net = NetInit

Next ==
    \/ \E text \in WakeTexts : ListenerReceive(text)
    \/ ListenerClose
    \/ MainConnect
    \/ MainConnectFail
    \/ MainReconnect
    \/ WorkerWake
    \/ WorkerClear
    \/ WorkerBuild
    \/ WorkerRequest
    \/ \E source \in OracleSources : WorkerHttpOk(source)
    \/ WorkerHttpFail
    \/ WorkerExtract
    \/ WorkerSend

Spec == Init /\ [][Next]_vars

\* run_client's loop is the main thread: it polls the listener every 0.5 s
\* and sleeps a bounded time before each connect, so each of its steps is
\* taken once it stays possible.
MainFairness ==
    /\ WF_vars(MainReconnect)
    /\ WF_vars(MainConnect \/ MainConnectFail)

SpecLive == Spec /\ MainFairness

\* The client with writes of the planner worker that may fail.
NextFault ==
    \/ Next
    \/ WorkerSendFail

SpecFault == Init /\ [][NextFault]_vars

\* The listener and the main thread alone, on every server text.
NextLogin ==
    \/ \E text \in ServerTexts : ListenerReceive(text)
    \/ ListenerClose
    \/ MainConnect
    \/ MainConnectFail
    \/ MainReconnect

SpecLogin == Init /\ [][NextLogin]_vars

\* A logged-in session whose worker has just received the oracle's body
\* for the source value src.
ExtractSession ==
    [SessionInit EXCEPT !.profile = 1, !.connection = 1, !.listener = "alive",
                        !.logged_in = TRUE, !.username_sent = TRUE,
                        !.password_sent = TRUE, !.prompt_seen = TRUE,
                        !.last_prompt_status = <<80, 40>>]

ExtractPlanner ==
    [PlannerInit(DEFAULT_MAX_CONTEXT_CHARS) EXCEPT
        !.active = TRUE, !.transcript = <<TokChars>>,
        !.last_hp = 80, !.last_ep = 40, !.rest_state = "awake"]

InitExtract ==
    /\ src \in Sources(MaxListLen, MaxLines)
    /\ session = ExtractSession
    /\ planner = ExtractPlanner
    /\ worker = [WorkerInit EXCEPT !.pc = "extract", !.attempt = 1,
                                   !.requests = 1, !.reason = "prompt",
                                   !.response = Encode(src)]
    /\ main = [pc |-> "watch", profile_index |-> 1]
    /\ obs = NewObs("init")
    /\ net = NetInit

NextExtract ==
    \/ WorkerExtract
    \/ WorkerSend

SpecExtract == InitExtract /\ [][NextExtract]_vars

\* The threads that touch the connection handle: run_client, the console
\* thread and the listeners.
NextHandle ==
    \/ MainStep
    \/ ConnectStep
    \/ \E t \in {"main", "console"} : DisconnectStep(t)
    \/ ConsoleStep
    \/ \E k \in 1..MaxConnections : ListenerStep(k)

SpecHandle == Init /\ [][NextHandle]_vars

\* The three writers on one open connection.
InitWrite ==
    /\ session = SessionInit
    /\ planner = PlannerInit(DEFAULT_MAX_CONTEXT_CHARS)
    /\ worker = WorkerInit
    /\ main = MainInit
    /\ obs = NewObs("init")
    /\ src = NoSource
    /\ net = [NetInit EXCEPT !.connection = 1, !.made = 1, !.listener = 1,
                             !.thread[1] = "check", !.pc.main = "watch"]

NextWrite == \E w \in Writers : WriterStep(w)

SpecWrite == InitWrite /\ [][NextWrite]_vars

\* The worker's writes next to run_client and the listener threads, which
\* clear the handle.
NextRace ==
    \/ WriterStep("worker")
    \/ MainStep
    \/ ConnectStep
    \/ DisconnectStep("main")
    \/ \E k \in 1..MaxConnections : ListenerStep(k)

SpecRace == InitWrite /\ [][NextRace]_vars

\* The four threads around the planner of a logged-in session.
InitLock ==
    /\ session = ExtractSession
    /\ planner = ExtractPlanner
    /\ worker = WorkerInit
    /\ main = [pc |-> "watch", profile_index |-> 1]
    /\ obs = NewObs("init")
    /\ src = NoSource
    /\ net = NetInit

NextLock ==
    \/ \E t \in PlannerThreads : PlannerStep(t)
    \/ WorkerLoopStep

SpecLock == InitLock /\ [][NextLock]_vars

\* The listener of a logged-in session, on the lines of the game.
ScanTokens ==
    { Tok("more", 0, 0), Tok("username_prompt", 0, 0),
      Tok("status_prompt", 80, 40), Tok("travelto_start", 0, 0),
      Tok("travelto_end", 0, 0), Tok("door_locked", 1, 0),
      Tok("no_gold", 0, 0), Tok("direction_block", 0, 0),
      Tok("target_missing", 0, 0) }

\* one line per read
ScanTexts == { <<t>> : t \in ScanTokens }

InitScan ==
    /\ session = ExtractSession
    /\ planner \in {ExtractPlanner, [ExtractPlanner EXCEPT !.active = FALSE]}
    /\ worker = WorkerInit
    /\ main = [pc |-> "watch", profile_index |-> 1]
    /\ obs = NewObs("init")
    /\ src = NoSource
    /\ net = NetInit

NextScan == \E text \in ScanTexts : ListenerReceive(text)

SpecScan == InitScan /\ [][NextScan]_vars

\* Bounds on the clock: the seconds one step of it takes, and its end.
TickSeconds == 15
MaxClock == 120

\* time passes
ClockTick ==
    /\ net.monotonic + TickSeconds <= MaxClock
    /\ net' = [net EXCEPT !.monotonic = @ + TickSeconds]
    /\ ClientUnchanged

EnemyTexts ==
    { <<Tok("target_line", a, 1)>> : a \in DOMAIN TargetNames }
    \cup { <<Tok("status_prompt", 80, 40)>> }

\* The listener of a logged-in session on enemy lines, with the clock.  The
\* reference point of time.monotonic() is undefined: the first reading is
\* any value.
InitEnemy ==
    /\ session = ExtractSession
    /\ planner = ExtractPlanner
    /\ worker = WorkerInit
    /\ main = [pc |-> "watch", profile_index |-> 1]
    /\ obs = NewObs("init")
    /\ src = NoSource
    /\ \E start \in {0, TARGET_MEMORY_SECONDS + TickSeconds} :
          net = [NetInit EXCEPT !.monotonic = start]

NextEnemy ==
    \/ \E text \in EnemyTexts : ListenerReceive(text)
    \/ ClockTick

SpecEnemy == InitEnemy /\ [][NextEnemy]_vars

\* Bound on the location repeat counters.
MaxStreak == 5

\* A call of one of the planner's status updates: the field, and the value
\* in n, m (numbers), chars (a str) or text (a literal).
Call(field, n, m, chars, text) ==
    [field |-> field, n |-> n, m |-> m, chars |-> chars, text |-> text]

StatusCalls ==
    { Call("vitals", 80, 40, <<>>, ""), Call("vitals", 15, 10, <<>>, "") }
    \cup { Call("gold", amount, 0, <<>>, "") : amount \in {0, 50} }
    \cup { Call("location", 0, 0, chars, "") :
             chars \in { <<"P">>, <<SP, "P">>, <<"G">>, <<SP>> } }
    \cup { Call("exits", 0, 0, chars, "") :
             chars \in { <<"n">>, <<"e">>, <<>> } }
    \cup { Call("environment", 0, 0, <<"d">>, "") }
    \cup { Call("travel", 0, 0, <<>>, text) :
             text \in {"idle", "auto-travel engaged"} }
    \cup { Call("rest", 0, 0, <<>>, "awake") }
    \cup { Call("encumbrance", 0, 0, chars, "") :
             chars \in { <<"H">>, <<"h">> } }
    \cup { Call("inventory", 0, 0, <<"L">>, "") }

\* the planner at the return of the call, with its log
ApplyCall(c, p) ==
    CASE c.field = "vitals" -> update_vitals(p, c.n, c.m)
      [] c.field = "gold" -> update_gold(p, c.n)
      [] c.field = "location" -> update_location(p, c.chars)
      [] c.field = "exits" -> update_exits(p, c.chars)
      [] c.field = "environment" -> update_environment(p, c.chars)
      [] c.field = "travel" -> update_travel_state(p, c.text)
      [] c.field = "rest" -> update_rest_state(p, c.text)
      [] c.field = "encumbrance" -> update_encumbrance(p, c.chars)
      [] c.field = "inventory" -> update_inventory_state(p, c.chars)

\* the reader calls a status update of the planner
StatusUpdate(c) ==
    /\ planner.location_streak < MaxStreak
    /\ planner' = Settled(ApplyCall(c, planner))
    /\ obs' = [NewObs("status") EXCEPT !.log = ApplyCall(c, planner).log]
    /\ UNCHANGED <<session, worker, main, src, net>>

\* The status snapshot of a new planner, on every update.
NextStatus == \E c \in StatusCalls : StatusUpdate(c)

SpecStatus == Init /\ [][NextStatus]_vars

\* one room line per read
LocationTexts == { <<Tok("location", a, 0)>> : a \in DOMAIN RoomNames }

\* the listener reads a room line
LocationReceive(text) ==
    /\ session.repeat_location_count < MaxStreak
    /\ ListenerReceive(text)

\* The listener of a logged-in session on room lines.
InitStuck ==
    /\ session = ExtractSession
    /\ planner = ExtractPlanner
    /\ worker = WorkerInit
    /\ main = [pc |-> "watch", profile_index |-> 1]
    /\ obs = NewObs("init")
    /\ src = NoSource
    /\ net = NetInit

NextStuck == \E text \in LocationTexts : LocationReceive(text)

SpecStuck == InitStuck /\ [][NextStuck]_vars

\* The listener of a logged-in session on rest lines and status prompts:
\* one line per read, or a rest line with the prompt that follows it.
RestTexts ==
    { <<Tok("rest_start", 0, 0)>>, <<Tok("status_prompt", 80, 40)>>,
      <<Tok("status_prompt", 60, 30)>>, <<Tok("direction_block", 0, 0)>>,
      <<Tok("more", 0, 0)>>,
      <<Tok("rest_start", 0, 0), Tok("status_prompt", 80, 40)>> }

NextRest == \E text \in RestTexts : ListenerReceive(text)

SpecRest == InitStuck /\ [][NextRest]_vars

\* The reads of a session whose server pages its output: a page ends with
\* the marker, and the server then waits for a line of input.
PagingTexts ==
    { <<Tok("more", 0, 0)>>, <<Tok("experience_gain", 0, 0)>>,
      <<Tok("status_prompt", 80, 40)>>, <<Tok("status_prompt", 60, 30)>>,
      <<Tok("door_locked", 1, 0)>>, <<Tok("door_locked", 2, 0)>>,
      <<Tok("experience_gain", 0, 0), Tok("more", 0, 0)>>,
      <<Tok("travelto_start", 0, 0), Tok("more", 0, 0)>>,
      <<Tok("status_prompt", 80, 40), Tok("more", 0, 0)>> }

\* _listen_loop: read_very_eager returns text only when the server has sent
\* some; the pass runs on it
PagingReceive(text) ==
    /\ ~net.paging
    /\ session.listener = "alive"
    /\ ~session.stop_event
    /\ session.connection # 0
    /\ LET w == listen_text(World("listener"), text)
       IN  /\ Commit(w)
           /\ net' = [net EXCEPT !.paging = /\ Search(text, MORE_PATTERNS) > 0
                                            /\ w.o.sent = <<>>]
    /\ UNCHANGED <<worker, main, src>>

NextPaging == \E text \in PagingTexts : PagingReceive(text)

\* the server sends on as long as it does not wait, and the listener reads
PagingFairness == WF_vars(NextPaging)

SpecPaging == InitStuck /\ [][NextPaging]_vars /\ PagingFairness

\* The reasons the listener's detectors pass to request_commands here.
RequestReasons == {"prompt", "pagination"}

\* a request_commands that sets the event before it stores the reason
RequestStep_set_first(t) ==
    /\ \/ /\ net.pcall[t].pc = "out"
          /\ planner.enabled
          /\ planner.active
          /\ planner' = [planner EXCEPT !.request_event = TRUE]
          /\ net' = [net EXCEPT !.pcall[t] = [pc |-> "set",
                                              method |-> "request_commands"]]
       \/ /\ net.pcall[t].pc = "set"
          /\ \E reason \in RequestReasons :
                planner' = [request_commands(planner, reason) EXCEPT
                               !.request_event = planner.request_event]
          /\ net' = [net EXCEPT !.pcall[t] = PlannerIdle]
    /\ UNCHANGED <<session, worker, main, obs, src>>

\* request_commands of thread t, statement by statement: the block under
\* self._lock stores the reason of an enabled, active planner; then, with
\* the lock released, self._request_event.set()
RequestStep(t) ==
    /\ \/ /\ net.pcall[t].pc = "out"
          /\ planner.enabled
          /\ planner.active
          /\ \E reason \in RequestReasons :
                planner' = [request_commands(planner, reason) EXCEPT
                               !.request_event = planner.request_event]
          /\ net' = [net EXCEPT !.pcall[t] = [pc |-> "set",
                                              method |-> "request_commands"]]
       \/ /\ net.pcall[t].pc = "set"
          /\ planner' = [planner EXCEPT !.request_event = TRUE]
          /\ net' = [net EXCEPT !.pcall[t] = PlannerIdle]
    /\ UNCHANGED <<session, worker, main, obs, src>>

\* the rest of a request_commands call whose locked block is done
RequestReturn(t) == net.pcall[t].pc = "set" /\ RequestStep(t)

\* _worker_loop, one statement at a time, but for _extract_commands
WorkerRun ==
    \/ WorkerWake
    \/ WorkerClear
    \/ WorkerBuild
    \/ WorkerRequest
    \/ \E source \in OracleSources : WorkerHttpOk(source)
    \/ WorkerHttpFail
    \/ WorkerSend

WorkerNext == WorkerRun \/ WorkerExtract

\* The listener's wake requests next to the planner worker.
NextWake ==
    \/ RequestStep("listener")
    \/ WorkerNext

\* The worker is a daemon thread that nothing blocks but its event, the
\* oracle calls return, and a thread inside request_commands runs on to
\* the end of the call.  WorkerExtract is enabled exactly while the worker
\* is at "extract", so its weak fairness is that the worker leaves it.
WakeFairness ==
    /\ WF_vars(WorkerRun)
    /\ []<>(worker.pc # "extract")
    /\ WF_vars(RequestReturn("listener"))

SpecWake == InitLock /\ [][NextWake]_vars /\ WakeFairness

\* A session that meets enemies, loses its connection and is connected
\* again by run_client, with the clock.
NextReconnect ==
    \/ \E text \in EnemyTexts : ListenerReceive(text)
    \/ ClockTick
    \/ ListenerClose
    \/ MainReconnect
    \/ MainConnect

SpecReconnect == InitEnemy /\ [][NextReconnect]_vars

\* Bound on the lines of one read in the specification of the buffer.
MaxTextTokens == 3

\* "plain" is text that no pattern matches
BufferTokens ==
    { Tok("plain", 0, 0), Tok("status_prompt", 80, 40),
      Tok("door_locked", 1, 0) }

BufferTexts(n) == SeqsUpTo(BufferTokens, n) \ {<<>>}

\* The listener of a logged-in session on reads of several lines.
NextBuffer == \E text \in BufferTexts(MaxTextTokens) : ListenerReceive(text)

SpecBuffer == InitStuck /\ [][NextBuffer]_vars

\* The transcript buffer alone, for every cap and chunk length.
AppendChunk(n) ==
    /\ planner' = append_transcript(planner, n)
    /\ obs' = [NewObs("append") EXCEPT
                  !.evicted = Len(planner.transcript) + 1
                              - Len(planner'.transcript)]
    /\ UNCHANGED <<session, worker, main, src, net>>

InitTranscript ==
    /\ \E cap \in 0..MaxCap : planner = PlannerInit(cap)
    /\ session = SessionInit
    /\ worker = WorkerInit
    /\ main = MainInit
    /\ obs = NewObs("init")
    /\ src = NoSource
    /\ net = NetInit

NextTranscript == \E n \in 1..MaxChunkChars : AppendChunk(n)

SpecTranscript == InitTranscript /\ [][NextTranscript]_vars

----------------------------------------------------------------------------
(* Properties of the oracle worker and the planner (Spec, SpecTranscript). *)

\* C1: at most one oracle HTTP round-trip is in flight at any time, and
\* the wakes that arrive during a round-trip lead to at most one further
\* round after the latest of them.
C1_SingleFlight ==
    /\ planner.inflight <= 1
    /\ planner.wakes_in_flight > 0 => planner.rounds_after_wake <= 1

\* two wakes arrived during one round-trip, one round followed, and the
\* worker is waiting again with no wake left
C1_Witness ==
    /\ planner.wakes_in_flight = 2
    /\ planner.rounds_after_wake = 1
    /\ worker.pc = "wait"
    /\ ~planner.request_event

\* C2: with a non-negative cap, after every append the characters held in
\* the transcript are at most max_context_chars, and what is held is the
\* newest end of the old transcript followed by the new chunk (chunks are
\* evicted from the oldest end only).
C2_TranscriptCap ==
    [][ /\ SumSeq(planner'.transcript) <= planner'.max_context_chars
        /\ \E n \in 1..MaxChunkChars :
              planner'.transcript =
                  Suffix(Append(planner.transcript, n),
                         Len(planner'.transcript)) ]_vars

\* an append evicted two chunks and kept more than the new one
C2_Witness ==
    /\ obs.who = "append"
    /\ obs.evicted >= 2
    /\ Len(planner.transcript) >= 2

\* C3: one pending reason is held; an accepted request_commands call
\* replaces it, so after a scan pass it is the reason of the pass's last
\* accepted call; a prompt build reads the reason held and clears it.
C3_PendingReason ==
    [][ /\ (obs'.who = "listener" /\ obs'.wakes # <<>>)
              => planner'.pending_reason = Last(obs'.wakes)
        /\ (worker.pc = "build" /\ worker'.pc = "query")
              => /\ worker'.reason = planner.pending_reason
                 /\ planner'.pending_reason = NoReason ]_vars

\* a build has read "experience gained" into its prompt, and a later pass
\* made two accepted calls of which the second reason is the one held
C3_Witness ==
    /\ worker.pc = "query"
    /\ worker.reason = "experience gained"
    /\ obs.who = "listener"
    /\ obs.wakes = <<"session start", "prompt">>
    /\ planner.pending_reason = "prompt"

----------------------------------------------------------------------------
(* Properties of the login sequence (SpecLogin).  obs describes the scan   *)
(* pass just made when obs.who = "listener".                               *)

SentLines == [i \in DOMAIN obs.sent |-> obs.sent[i].line]

UsernameLine == << DEFAULT_PROFILES[session.profile].username >>
PasswordLine == << DEFAULT_PROFILES[session.profile].password >>

\* C4 (as claimed): on a fresh connection a username prompt is answered
\* with the username, a password prompt with the password, and the pass
\* that then activates the session on the first status prompt makes
\* exactly one planner wake, with reason "login".
C4_LoginWake ==
    obs.who = "listener" =>
        /\ (obs.matchedUser /\ ~obs.preUser) => SentLines = <<UsernameLine>>
        /\ (obs.matchedPass /\ obs.preUser /\ ~obs.prePass)
              => SentLines = <<PasswordLine>>
        /\ (obs.activated /\ obs.preUser /\ obs.prePass)
              => /\ session.logged_in
                 /\ planner.active
                 /\ obs.wakes = <<"login">>

C6_CredentialsFirst ==
    (obs.who = "listener" /\ ~obs.prePass) =>
        /\ obs.fired \cap GameplayDetectors = {}
        /\ obs.wakes = <<>>
        /\ ~obs.activated

\* C7 (as claimed): the username is sent only in a pass in which a username
\* pattern matched the buffer, the password only in one in which a
\* password pattern matched.
C7_ReactiveOnly ==
    obs.who = "listener" =>
        \A i \in DOMAIN SentLines :
            /\ SentLines[i] = UsernameLine => obs.matchedUser
            /\ SentLines[i] = PasswordLine => obs.matchedPass

\* C7 (amended): the username is sent only in a pass in which a username
\* or a password pattern matched the buffer, the password only in one in
\* which a password pattern matched; a pass in which neither matched sends
\* no credential.
C7_Reactive ==
    obs.who = "listener" =>
        \A i \in DOMAIN SentLines :
            /\ SentLines[i] = UsernameLine
                  => obs.matchedUser \/ obs.matchedPass
            /\ SentLines[i] = PasswordLine => obs.matchedPass

\* a password prompt with no username prompt in the buffer was answered
\* with the username and then the password
C7_Witness ==
    /\ obs.who = "listener"
    /\ ~obs.matchedUser
    /\ obs.matchedPass
    /\ SentLines = <<UsernameLine, PasswordLine>>

----------------------------------------------------------------------------
(* Properties of command extraction (SpecExtract).  src is the value the   *)
(* oracle encoded; worker.commands is what _extract_commands returned for  *)
(* the encoded body once worker.pc has left "extract".                     *)

NonEmpty(q) == SelectSeq(q, LAMBDA c : c # <<>>)

\* the strings of the source's list / the commands they stand for
SourceStrings == [i \in DOMAIN src.cmds |-> src.cmds[i].s]
SourceCommands == NonEmpty([i \in DOMAIN src.cmds |-> src.cmds[i].clean])

\* the commands the lines of a plain-text source stand for
SourceLineCommands == NonEmpty([i \in DOMAIN src.lines |-> src.lines[i].cmd])

\* C8 (as claimed): for a wrapped or direct {"commands": [...]} body with
\* a list of 1 to 3 non-empty strings the commands returned are exactly
\* those strings in order; for a plain-text body they are its non-empty,
\* non-JSON-looking lines (up to max_commands of them).
C8_ExactStrings ==
    worker.pc # "extract" =>
        /\ ( /\ src.kind \in StructuredKinds
             /\ Len(src.cmds) \in 1..DEFAULT_MAX_COMMANDS
             /\ \A i \in DOMAIN src.cmds :
                   src.cmds[i].str /\ src.cmds[i].s # <<>> )
              => worker.commands = SourceStrings
        /\ src.kind = "text"
              => worker.commands =
                     Prefix(SourceLineCommands, DEFAULT_MAX_COMMANDS)

\* C8 (amended): for a wrapped or direct {"commands": [...]} body whose
\* list holds at least one string that is not blank, the commands
\* returned are the list's strings with surrounding whitespace stripped,
\* without the blank ones and the non-strings, in order, up to
\* max_commands; for a plain-text body they are its lines stripped of
\* whitespace and "#", without the blank and JSON-looking ones, up to
\* max_commands.
C8_Extracted ==
    worker.pc # "extract" =>
        /\ (src.kind \in StructuredKinds /\ SourceCommands # <<>>)
              => worker.commands =
                     Prefix(SourceCommands, DEFAULT_MAX_COMMANDS)
        /\ src.kind = "text"
              => worker.commands =
                     Prefix(SourceLineCommands, DEFAULT_MAX_COMMANDS)

\* a wrapped body listing " look", "" and "go west" gave look, go west
C8_Witness ==
    /\ worker.pc = "send"
    /\ src.kind = "wrapped"
    /\ SourceStrings = << <<SP, "look">>, <<>>, <<"go", SP, "west">> >>
    /\ worker.commands = << <<"look">>, <<"go", SP, "west">> >>

\* C9: whatever the oracle's body, one round yields at most max_commands
\* (3) commands and writes at most that many lines, on the structured
\* path and on the line fallback alike.
C9_AtMostMaxCommands ==
    worker.pc # "extract" =>
        /\ Len(worker.commands) <= DEFAULT_MAX_COMMANDS
        /\ Len(worker.written) <= DEFAULT_MAX_COMMANDS

\* a plain-text body with more than max_commands command lines was cut to
\* max_commands, all of them written
C9_Witness ==
    /\ worker.pc = "wait"
    /\ src.kind = "text"
    /\ Len(SourceLineCommands) > DEFAULT_MAX_COMMANDS
    /\ Len(worker.commands) = DEFAULT_MAX_COMMANDS
    /\ Len(worker.written) = DEFAULT_MAX_COMMANDS

\* C10 (as claimed): when the round for a wrapped or direct body whose
\* list holds an empty string among at most max_commands entries is over,
\* a blank line has been written to the connection.
C10_EmptyIsEnter ==
    ( /\ worker.pc = "wait"
      /\ src.kind \in StructuredKinds
      /\ Len(src.cmds) <= DEFAULT_MAX_COMMANDS
      /\ \E i \in DOMAIN src.cmds : src.cmds[i].str /\ src.cmds[i].s = <<>> )
        => \E j \in DOMAIN worker.written : worker.written[j] = <<>>

----------------------------------------------------------------------------
(* Properties of a failed oracle round (SpecExtract, Spec).                *)

\* C11 (as claimed): a round whose attempts all failed (the response is
\* None), or whose body is empty or malformed, produces zero commands and
\* leaves the worker waiting for the next wake, while the listener loop
\* goes on reading.
C11_FailedRoundNoCommands ==
    (worker.pc # "extract" /\ src.kind \in {"none"} \cup MalformedKinds) =>
        /\ worker.commands = <<>>
        /\ worker.pc = "wait"
        /\ session.listener = "alive" /\ ~session.stop_event

\* C12: one round makes at most OLLAMA_MAX_RETRIES + 1 HTTP attempts; an
\* attempt that fails (transport error, timeout, non-200) is retried while
\* fewer than that many were made and otherwise ends the round's attempts
\* with no response; an HTTP 200 ends them at once with its body; and
\* whatever the body, extraction is never followed by another attempt of
\* the same round.
C12_BoundedAttempts ==
    [][ /\ worker'.requests <= OLLAMA_MAX_RETRIES + 1
        /\ (worker.pc = "http" /\ worker' # worker /\ src' = NoSource) =>
              IF worker.requests < OLLAMA_MAX_RETRIES + 1
              THEN worker'.pc = "query" /\ worker'.requests = worker.requests
              ELSE worker'.pc = "extract" /\ worker'.response = <<>>
        /\ (worker.pc = "http" /\ worker' # worker /\ src' # NoSource) =>
              /\ worker'.pc = "extract"
              /\ worker'.response = Encode(src')
        /\ (worker.pc = "query" /\ worker'.pc # "query") =>
              worker'.pc = "http" /\ worker'.requests = worker.requests + 1
        /\ worker'.pc = "query" => worker.pc \in {"build", "http", "query"}
        /\ worker.pc = "extract" => worker'.pc \in {"extract", "wait", "send"}
      ]_vars

\* three attempts failed, the fourth got a 200 with a body cut off, and the
\* round ended without commands and without a fifth attempt
C12_Witness ==
    /\ worker.requests = OLLAMA_MAX_RETRIES + 1
    /\ src.kind = "truncated"
    /\ worker.commands = <<>>
    /\ worker.pc = "wait"

----------------------------------------------------------------------------
(* Properties of the command dispatcher and of reconnection.               *)

\* C13 (as claimed): a send_command call made by the planner worker while
\* the connection handle is gone is a silent no-op: it writes nothing,
\* emits no output line and records no command with the planner.
C13_SilentWhenDisconnected ==
    [][ ( /\ worker.pc = "send"
          /\ worker'.next = worker.next + 1
          /\ session.connection = 0 )
        => /\ obs'.sent = <<>>
           /\ worker'.written = worker.written
           /\ planner' = planner
           /\ obs'.emits = {} ]_vars

\* the state disconnect() leaves, with the next profile up for connect
TornDown(i) ==
    /\ session.connection = 0
    /\ session.listener = "none"
    /\ ~planner.active
    /\ main.pc = "connect"
    /\ main.profile_index = NextProfile(i)

\* connect() has been called for profile i (it clears the stop event)
ConnectTried(i) == session.profile = i /\ ~session.stop_event

\* C14: once the listener loop has ended on a remote close or a read
\* error, the session eventually has no connection handle, no listener
\* and an inactive planner, with the next profile of the rotation up for
\* connect, and after that a connect with that profile is attempted.
C14_ReconnectAfterClose ==
    \A i \in DOMAIN DEFAULT_PROFILES :
        [] ( (session.listener = "dead" /\ main.profile_index = i)
                => <> (TornDown(i) /\ <> ConnectTried(NextProfile(i))) )

\* a logged-in session was closed by the server and torn down, and the
\* second profile is up for connect
C14_Witness ==
    /\ obs.who = "main"
    /\ session.logged_in
    /\ session.stop_event
    /\ TornDown(1)

\* C15: a step in which connect() fails (the main thread stays before its
\* connect) leaves the session disconnected: no connection handle, no
\* listener thread, planner inactive; and the connect it retries with is
\* for the profile index advanced by one modulo the number of profiles.
C15_ConnectFailure ==
    [][ ( /\ main.pc = "connect" /\ main'.pc = "connect"
          /\ worker' = worker /\ src' = src )
        => /\ session'.profile = main.profile_index
           /\ session'.connection = 0
           /\ session'.listener = "none"
           /\ ~planner'.active
           /\ main'.profile_index =
                  (main.profile_index % Len(DEFAULT_PROFILES)) + 1 ]_vars

\* the connect for the last profile failed and the first profile is up
\* again, after a session that had been logged in
C15_Witness ==
    /\ obs.who = "main"
    /\ main.pc = "connect"
    /\ session.profile = Len(DEFAULT_PROFILES)
    /\ main.profile_index = 1
    /\ ~session.stop_event
    /\ session.connection = 0
    /\ planner.last_hp # NoValue

\* C16 (as claimed): after a write failure in the planner worker the
\* client reconnects and the worker still serves wakes: a wake pending on
\* an activated session of another profile than the one whose write
\* failed finds the worker thread running.
C16_WorkerServesNewSession ==
    ( /\ session.connection # 0
      /\ session.profile # worker.failed_profile
      /\ planner.active
      /\ planner.request_event )
    => worker.pc # "dead"

\* C17: the step in which run_client calls disconnect() ends with the
\* stop event set, no connection handle and the planner inactive; and a
\* step that starts and ends with the planner inactive sets no pending
\* reason, sets no wake and starts no oracle round, whatever
\* request_commands calls it makes.
C17_DroppedWhileInactive ==
    [][ /\ (main.pc = "watch" /\ main'.pc = "connect")
              => /\ session'.stop_event
                 /\ session'.connection = 0
                 /\ ~planner'.active
        /\ (~planner.active /\ ~planner'.active)
              => /\ planner'.pending_reason
                        \in {planner.pending_reason, NoReason}
                 /\ planner'.request_event => planner.request_event
                 /\ worker'.pc = "query" => worker.pc \in {"query", "http"}
      ]_vars

\* a pass of the next connection, before its activation, called
\* request_commands for an experience gain while a round started on the
\* connection before it was still in flight; nothing is pending
C17_Witness ==
    /\ obs.who = "listener"
    /\ "experience" \in obs.fired
    /\ ~planner.active
    /\ obs.wakes = <<>>
    /\ planner.pending_reason = NoReason
    /\ ~planner.request_event
    /\ worker.pc = "http"

----------------------------------------------------------------------------
(* Properties of the connection handle (SpecHandle).                       *)

ListenersRunning ==
    { k \in 1..MaxConnections : net.thread[k] \notin {"unborn", "done"} }

\* C18 (as claimed): every connect creates a new object, at most one
\* listener thread runs at a time, and listener thread k reads from and
\* clears no object but object k.
C18_OneListenerPerHandle ==
    /\ net.connection \in 0..net.made
    /\ Cardinality(ListenersRunning) <= 1
    /\ \A r \in net.reads \cup net.clears : r[1] = r[2]

----------------------------------------------------------------------------
(* Properties of the writes to the connection (SpecWrite).                 *)

Payloads ==
    UNION { { command \o <<NL>> : command \in WriterCommands(w) } :
            w \in Writers }

\* q is a concatenation of whole payloads
RECURSIVE WholeCommands(_)
WholeCommands(q) ==
    \/ q = <<>>
    \/ \E p \in Payloads :
          /\ Len(p) <= Len(q)
          /\ SubSeq(q, 1, Len(p)) = p
          /\ WholeCommands(SubSeq(q, Len(p) + 1, Len(q)))

\* the writers inside connection.write
Writing == { w \in Writers : net.writer[w].pc \in {"write", "unlock"} }

\* C19: at most one thread is inside connection.write at a time, and the
\* bytes on the connection are whole commands (text and newline), one
\* after the other, followed only by the part written so far of the one
\* command being written.
C19_ContiguousWrites ==
    /\ Cardinality(Writing) <= 1
    /\ \/ Writing = {} /\ WholeCommands(net.wire)
       \/ \E w \in Writing :
             LET n == net.writer[w].pos - 1
                 m == Len(net.wire) - n
             IN  /\ m >= 0
                 /\ SubSeq(net.wire, m + 1, Len(net.wire))
                       = SubSeq(net.writer[w].payload, 1, n)
                 /\ WholeCommands(SubSeq(net.wire, 1, m))

\* the worker is in the middle of its command, after a whole command of
\* the console, while the listener waits for the lock
C19_Witness ==
    /\ net.wire = <<"g", "o", NL, "l">>
    /\ net.writer["worker"].pc = "write"
    /\ net.writer["listener"].pc = "lock"
    /\ net.send_lock = "worker"

----------------------------------------------------------------------------
(* Properties of the sending of a round (SpecFault).                       *)

\* C20: the commands of a round are those of the oracle's list in its
\* order; each step of the loop hands exactly the next one to
\* send_command, which writes it if the connection is up; and the worker
\* is outside the loop (waiting, or at work on a later round) only when
\* every command of the round before has gone through it.
C20_RoundInOrder ==
    [][ /\ (worker'.pc # "extract" /\ src'.kind \in StructuredKinds)
              => worker'.commands =
                     [i \in DOMAIN src'.cmds |-> src'.cmds[i].clean]
        /\ (worker.pc = "send" /\ worker'.next # worker.next)
              => /\ worker'.next = worker.next + 1
                 /\ worker'.commands = worker.commands
                 /\ worker'.written =
                        IF session.connection # 0
                        THEN Append(worker.written,
                                    worker.commands[worker.next])
                        ELSE worker.written
                 /\ obs'.sent =
                        IF session.connection # 0
                        THEN << [line |-> worker.commands[worker.next],
                                 source |-> "ollama"] >>
                        ELSE <<>>
        /\ worker'.pc = "send" => worker'.next <= Len(worker'.commands)
        /\ worker'.pc \notin {"send", "dead"}
              => worker'.next = Len(worker'.commands) + 1
      ]_vars

\* a round of two commands has been written in the oracle's order and a
\* later round is under way
C20_Witness ==
    /\ worker.commands = << <<"look">>, <<"go", SP, "west">> >>
    /\ worker.written = worker.commands
    /\ worker.pc = "http"

----------------------------------------------------------------------------
(* Properties of the planner's lock (SpecLock).                            *)

\* C21: the planner worker does not hold the planner's lock while an oracle
\* round-trip is under way or while it sleeps between two commands, so a
\* reader waiting for the lock then waits for nothing but a thread that is
\* inside a locked block and leaves it by its own next step.
C21_NoLockAcrossOracle ==
    net.wpos \in {"http", "sleep"} =>
        /\ net.plock # "worker"
        /\ net.pcall["listener"].pc = "lock" =>
              \/ net.plock = "free"
              \/ net.pcall[net.plock].pc = "in"

\* the reader is inside a planner method during an oracle round-trip
C21_Witness ==
    /\ net.wpos = "http"
    /\ net.plock = "listener"
    /\ net.pcall["listener"].pc = "in"

\* the Transcript Buffer and the Status Snapshot of the planner
Snapshot(p) ==
    << p.transcript, p.last_hp, p.last_ep, p.travel_state, p.rest_state >>

\* C22 (as claimed): the transcript and the status snapshot change only in
\* steps of the reader thread.
C22_OnlyReaderModifies ==
    [][Snapshot(planner') # Snapshot(planner) => net.plock = "listener"]_vars

\* C22 (amended): a thread inside a planner block that reads or writes the
\* transcript or the status snapshot holds the planner's lock, alone, and
\* the two change only in the step with which the lock's holder leaves its
\* block, whichever of the four threads it is.
C22_LockedAccess ==
    [][/\ \A t \in PlannerThreads : net.pcall[t].pc = "in" => net.plock = t
       /\ Snapshot(planner') # Snapshot(planner) =>
             /\ net.plock \in PlannerThreads
             /\ net.pcall[net.plock].pc = "in"
             /\ net'.pcall[net.plock].pc = "out"]_vars

\* the worker is inside record_command, about to append the command it
\* sent to a transcript that still has room
C22_Witness ==
    /\ net.plock = "worker"
    /\ net.pcall["worker"] = [pc |-> "in", method |-> "record_command"]
    /\ Len(planner.transcript) = 1

----------------------------------------------------------------------------
(* Properties of the prompt build (Spec).                                  *)

\* C23: the worker goes from the prompt build to an oracle request only when
\* the planner is active and the transcript is not empty at the build;
\* otherwise it goes back to waiting with no request made and nothing sent.
\* A request is only ever made by an attempt that such a build started.
C23_RequestNeedsContext ==
    [][/\ (worker.pc = "build" /\ worker' # worker) =>
             IF planner.active /\ planner.transcript # <<>>
             THEN worker'.pc = "query" /\ worker'.attempt = 1
             ELSE /\ worker'.pc = "wait"
                  /\ planner'.inflight = planner.inflight
                  /\ obs'.sent = <<>>
                  /\ session' = session
       /\ planner'.inflight > planner.inflight => worker.pc = "query"
       /\ (worker'.pc = "query" /\ worker.pc # "query") =>
             worker.pc \in {"build", "http"}]_vars

\* a wake whose build found the planner inactive: the worker waits again
C23_Witness ==
    /\ obs = NewObs("worker")
    /\ worker.pc = "wait"
    /\ ~planner.active
    /\ planner.transcript # <<>>
    /\ ~planner.request_event

----------------------------------------------------------------------------
(* Properties of the gameplay detectors (SpecScan, SpecLogin).             *)

BlankLine == [line |-> <<>>, source |-> "system"]

\* C24: a scan pass that matches a pagination marker writes one blank line
\* to the connection, by send_blank and nothing else, and leaves the
\* buffer empty, so the marker is not there for a later pass.
C24_OneBlankPerMarker ==
    (obs.who = "listener" /\ "more" \in obs.fired) =>
        /\ obs.sent = <<BlankLine>>
        /\ session.buffer = <<>>

\* a pass matched the marker: one blank line, the pagination wake, an
\* empty buffer
C24_Witness ==
    /\ obs.who = "listener"
    /\ obs.fired = {"more"}
    /\ obs.sent = <<BlankLine>>
    /\ obs.wakes = <<"pagination">>
    /\ session.buffer = <<>>

\* the reasons of the wakes a pass made
WakeReasons == { obs.wakes[i] : i \in DOMAIN obs.wakes }

HazardWake ==
    [ direction_block |-> "movement blocked",
      target_missing |-> "target missing",
      no_gold |-> "insufficient gold",
      door_locked |-> "door locked" ]

\* C26 (as claimed): a pass of an active session that matches a hazard
\* message (blocked movement, missing target, insufficient gold, locked
\* door) appends an entry to the Issue log and wakes the planner with the
\* reason of that hazard.
C26_HazardRaisesIssue ==
    (obs.who = "listener" /\ planner.active) =>
        \A hazard \in DOMAIN HazardWake :
            hazard \in obs.fired =>
                /\ obs.log.issues # <<>>
                /\ HazardWake[hazard] \in WakeReasons

----------------------------------------------------------------------------
(* Properties of the enemy memory (SpecEnemy).                             *)

\* C27 (as claimed): a pass that matches an enemy line announces it (event
\* line, wake "enemy spotted") exactly when the normalized name has not
\* been announced before or was last announced more than 45 seconds ago.
C27_AnnouncedOncePerWindow ==
    [][(obs'.who = "listener" /\ "enemy" \in obs'.fired /\ net' = net) =>
          LET name == obs'.target
              announced == /\ obs'.spotted
                           /\ "enemy spotted" \in
                                 { obs'.wakes[i] : i \in DOMAIN obs'.wakes }
                           /\ obs'.log.lines # <<>>
          IN  announced <=>
                \/ name \notin DOMAIN session.recent_targets
                \/ net.monotonic - session.recent_targets[name]
                      > TARGET_MEMORY_SECONDS]_vars

\* the tags of the transcript lines a log holds
LineTags(log) == { log.lines[i] : i \in DOMAIN log.lines }

\* C28: update_location with the value the planner already stores adds one
\* to the location repeat counter and appends no "[location]" transcript
\* line; with a different value it sets the counter to 1.
C28_RepeatCounts ==
    \A c \in StatusCalls :
        (c.field = "location" /\ planner.enabled /\ Strip(c.chars) # <<>>) =>
            LET q == update_location(planner, c.chars)
            IN  IF planner.location = Strip(c.chars)
                THEN /\ q.location_streak = planner.location_streak + 1
                     /\ q.location = planner.location
                     /\ "location" \notin LineTags(q.log)
                ELSE /\ q.location_streak = 1
                     /\ q.location = Strip(c.chars)

\* the same location was given twice in a row
C28_Witness ==
    /\ obs.who = "status"
    /\ planner.location = <<"P">>
    /\ planner.location_streak = 2
    /\ obs.log.lines = <<"location-repeat">>

StatusFields ==
    {"vitals", "gold", "location", "exits", "environment", "travel", "rest",
     "encumbrance", "inventory"}

\* the value the planner stores for a status field
Stored(p, field) ==
    CASE field = "vitals" -> <<p.last_hp, p.last_ep>>
      [] field = "gold" -> <<p.last_gold>>
      [] field = "location" -> p.location
      [] field = "exits" -> p.exits
      [] field = "environment" -> p.environment
      [] field = "travel" -> <<p.travel_state>>
      [] field = "rest" -> <<p.rest_state>>
      [] field = "encumbrance" -> p.encumbrance
      [] field = "inventory" -> p.inventory_state

\* the value of a call as the update compares and stores it; <<>> for a
\* blank one
Value(c) ==
    CASE c.field = "vitals" -> <<c.n, c.m>>
      [] c.field = "gold" -> <<c.n>>
      [] c.field \in {"location", "exits", "environment"} -> Strip(c.chars)
      [] c.field \in {"travel", "rest"} -> <<c.text>>
      [] c.field \in {"encumbrance", "inventory"} -> Lower(Strip(c.chars))

\* the tag of the transcript line of a status field
Tag(field) == IF field \in {"vitals", "gold"} THEN "status" ELSE field

\* C29 as stated: for each of the nine status fields, an update with the
\* stored value changes nothing of the planner, its transcript or its logs,
\* and an update with a new value stores it and appends one tagged line.
C29_EqualChangesNothing ==
    \A c \in StatusCalls :
        (planner.enabled /\ Value(c) # <<>>) =>
            LET q == ApplyCall(c, planner)
            IN  IF Value(c) = Stored(planner, c.field)
                THEN q = planner
                ELSE /\ Stored(q, c.field) = Value(c)
                     /\ q.log.lines = <<Tag(c.field)>>

\* C29, amended: a blank value changes nothing; for the eight fields other
\* than the location a value equal to the stored one changes nothing and a
\* new one is stored with exactly one tagged line; a repeated location adds
\* one to the repeat counter and appends a "[location-repeat]" line while
\* the counter is at most 3; no update touches another field's value.
C29_StatusUpdates ==
    \A c \in StatusCalls :
        planner.enabled =>
            LET q == ApplyCall(c, planner)
                v == Value(c)
                old == Stored(planner, c.field)
            IN  /\ \A f \in StatusFields \ {c.field} :
                       Stored(q, f) = Stored(planner, f)
                /\ IF v = <<>> THEN q = planner
                   ELSE IF c.field = "location"
                   THEN IF v = old
                        THEN /\ q.location = old
                             /\ q.location_streak
                                    = planner.location_streak + 1
                             /\ q.log.lines
                                    = IF q.location_streak <= 3
                                      THEN <<"location-repeat">>
                                      ELSE <<>>
                        ELSE /\ q.location = v
                             /\ q.location_streak = 1
                             /\ q.log.lines = <<"location">>
                   ELSE IF v = old THEN q = planner
                   ELSE /\ Stored(q, c.field) = v
                        /\ q.log.lines = <<Tag(c.field)>>

\* an update left the stored exits and encumbrance as they were
C29_Witness ==
    /\ obs.who = "status"
    /\ obs.log = NoLog
    /\ planner.exits = <<"n">>
    /\ planner.encumbrance = <<"h">>
    /\ planner.last_gold = 50

-----------------------------------------------------------------------------
(* Properties of the stagnation notices (SpecStuck).                       *)

\* the entries of an Issue log that report a location that does not change
StagnationIssues(log) ==
    { i \in DOMAIN log.issues : log.issues[i].kind \in {"Still at",
            "Still in"} }

\* C30 (as claimed): a pass on a room line raises one stagnation Issue when
\* it is the fourth consecutive report of the same location, and none on
\* any other report of the episode.
C30_OncePerEpisode ==
    (obs.who = "listener" /\ "location" \in obs.fired) =>
        Cardinality(StagnationIssues(obs.log))
            = IF session.repeat_location_count = 4 THEN 1 ELSE 0

-----------------------------------------------------------------------------
(* Properties of the three logs (SpecScan).                                *)

\* the messages of the entries of a log, without their "(xN)" suffix
Messages(entries) ==
    { [kind |-> entries[i].kind, arg |-> entries[i].arg] :
          i \in DOMAIN entries }

\* C31 (as claimed): a message is appended to its log on its 1st, 3rd and
\* 5th occurrence only, so of two occurrences in a row at most one is
\* appended: two passes in a row never append the same message to the
\* events, to the issues or to the opportunities.
C31_NoRepeatInARow ==
    [][(obs.who = "listener" /\ obs'.who = "listener") =>
          /\ Messages(obs.log.events) \cap Messages(obs'.log.events) = {}
          /\ Messages(obs.log.issues) \cap Messages(obs'.log.issues) = {}
          /\ Messages(obs.log.opportunities)
                 \cap Messages(obs'.log.opportunities) = {}]_vars

-----------------------------------------------------------------------------
(* Properties of repeated scans (SpecRest).                                *)

\* C32 (as claimed): text that a pass has reacted to causes no reaction in
\* a later pass.  In a logged-in session the status detection runs in every
\* pass and reads the first status prompt of the buffer, so a prompt that
\* is in the buffer before a read has been reacted to: the pass after the
\* read does not set the rest state back to "awake".
C32_ReactsOnce ==
    [][(/\ Search(session.buffer, PROMPT_PATTERN) > 0
        /\ obs'.who = "listener"
        /\ planner.rest_state # "awake")
          => planner'.rest_state # "awake"]_vars

-----------------------------------------------------------------------------
(* Properties of the detection buffer (SpecBuffer).                        *)

\* C33: the detection buffer holds at most 8192 characters when a scan pass
\* starts: a read that makes it longer leaves its last 4096 characters (the
\* whole lines among them), any other read leaves it whole, and the scan
\* pass does not make it longer.
C33_BufferBound ==
    /\ Len(session.buffer) * TokChars <= BUFFER_LIMIT
    /\ \A text \in BufferTexts(MaxTextTokens) :
          LET joined == session.buffer \o text
              start == Truncate(joined)
              after == listen_text(World("listener"), text).s.buffer
          IN  /\ Len(start) * TokChars <= BUFFER_LIMIT
              /\ start = Suffix(joined, Len(start))
              /\ IF Len(joined) * TokChars > BUFFER_LIMIT
                 THEN /\ Len(start) * TokChars <= BUFFER_KEEP
                      /\ (Len(start) + 1) * TokChars > BUFFER_KEEP
                 ELSE start = joined
              /\ Len(after) <= Len(start)

\* a read made the buffer longer than 8192 characters and it was cut
C33_Witness ==
    /\ obs.who = "listener"
    /\ obs.truncated
    /\ session.buffer # <<>>

-----------------------------------------------------------------------------
(* Properties of a round that outlives its connection (Spec).              *)

\* C34 (as claimed): no command of a round whose prompt was built during
\* an earlier connection is written to the connection open now.  A prompt
\* is built only while the planner is active, and on a connection the
\* planner is active only from the first status prompt on, which sets
\* _logged_in: so the worker writes to no connection before that.
C34_NoStaleCommand ==
    (obs.who = "worker" /\ obs.sent # <<>>) => session.logged_in

-----------------------------------------------------------------------------
(* Properties of the handle test in send_command / send_blank (SpecRace).  *)

\* C35 (as claimed): no thread calls write on a connection handle that is
\* None, whatever the listener thread and disconnect() do between the
\* handle test and the write.
C35_NoNullWrite == \A w \in Writers : net.writer[w].pc # "raised"

-----------------------------------------------------------------------------
(* Properties of the credentials on an active session (SpecLogin).         *)

\* C36 (as claimed): a pass of a session that is already logged in (active)
\* on its connection does not send the password, whatever the text read.
C36_NoPasswordWhenActive ==
    (obs.who = "listener" /\ obs.preLogged) =>
        \A i \in DOMAIN obs.sent : obs.sent[i].line # PasswordLine

\* the positions of a line among the lines a pass sent
SentAt(line) == { i \in DOMAIN obs.sent : obs.sent[i].line = line }

\* C37 (as claimed): on a connection the passes send the username at most
\* once and the password at most once, the password not before the
\* username.  The password is never sent without the username having been
\* sent, so a pass that starts after either was sent sends no username, a
\* pass that starts after the password was sent sends no password, and a
\* pass sends each at most once, the username first.
C37_CredentialsOnce ==
    obs.who = "listener" =>
        /\ Cardinality(SentAt(UsernameLine)) <= 1
        /\ Cardinality(SentAt(PasswordLine)) <= 1
        /\ (obs.preUser \/ obs.prePass) => SentAt(UsernameLine) = {}
        /\ obs.prePass => SentAt(PasswordLine) = {}
        /\ \A i \in SentAt(PasswordLine) :
               obs.preUser \/ \E j \in SentAt(UsernameLine) : j < i

-----------------------------------------------------------------------------
(* Properties of pagination (SpecPaging).                                  *)

\* C38 (as claimed): when the server has sent a pagination marker and
\* waits for input, a blank line is eventually sent; no earlier detector
\* that ended the pass leaves the marker unanswered.  The planner has no
\* wake pending, so no command of its own reaches the server either.
C38_MarkerAnswered ==
    (net.paging /\ ~planner.request_event)
        ~> (obs.who = "listener" /\ SentAt(<<>>) # {})

-----------------------------------------------------------------------------
(* Properties of the wake hand-over (SpecWake).                            *)

-----------------------------------------------------------------------------
(* Properties of connect() (SpecReconnect).                                *)

\* the names a target line can carry, as the enemy detector keys them
NormalizedTargets ==
    { Lower(CollapseWs(Strip(TargetNames[a]))) : a \in DOMAIN TargetNames }

\* the names whose sighting the enemy detector would not announce now
Suppressed(s) ==
    { n \in NormalizedTargets :
        net.monotonic - (IF n \in DOMAIN s.recent_targets
                         THEN s.recent_targets[n] ELSE 0)
            <= TARGET_MEMORY_SECONDS }

\* what the detectors of a pass read of the session and the planner
DetectionState(s, p) ==
    [ buffer |-> s.buffer,
      logged_in |-> s.logged_in,
      username_sent |-> s.username_sent,
      password_sent |-> s.password_sent,
      travel_active |-> s.travel_active,
      last_command_sent |-> s.last_command_sent,
      last_prompt_status |-> s.last_prompt_status,
      last_location_summary |-> s.last_location_summary,
      repeat_location_count |-> s.repeat_location_count,
      stagnation_notice_location |-> s.stagnation_notice_location,
      gold_failures |-> s.gold_failures,
      suppressed |-> Suppressed(s),
      transcript |-> p.transcript,
      pending_reason |-> p.pending_reason,
      issue_counts |-> p.issue_counts,
      last_gold |-> p.last_gold,
      location |-> p.location,
      location_streak |-> p.location_streak ]

\* C40 (as claimed): right after connect() the detection state of the
\* session is that of a brand-new session: no flag, counter, enemy
\* sighting, transcript, log or pending reason of the previous connection
\* is left.
C40_FreshAfterConnect ==
    (obs.who = "main" /\ main.pc = "watch" /\ "event" \in obs.emits)
        => DetectionState(session, planner)
             = DetectionState(SessionInit,
                              PlannerInit(DEFAULT_MAX_CONTEXT_CHARS))

====
